---------------------------- MODULE Spec2Model ----------------------------
(***************************************************************************)
(* Model of the expense-ai-assistant backend services: the hybrid category *)
(* classifier (classifier_service.py: the keyword rule stage, the          *)
(* arbitration with the statistical pipeline, retraining in place and the  *)
(* pickled snapshot), the receipt parser (parser_service.py), the anomaly  *)
(* detector (analytics_service.py) and the forecasts                       *)
(* (prediction_service.py, ml/predictor/model.py).                         *)
(*                                                                         *)
(* Strings are sequences of one-character strings.  Confidences and        *)
(* probabilities are integers in hundredths (0.8 is 80).                   *)
(***************************************************************************)
EXTENDS Integers, Sequences, FiniteSets, TLC

(***************************************************************************)
(* Bounds of the exploration.                                              *)
(***************************************************************************)
MaxTrain == 1    \* retrain calls that reach the fit, per training thread
MaxFood  == 10   \* most samples of a retrain call labelled food
MaxTopN  == 2    \* largest top_n passed to get_category_suggestions
MaxLines == 2    \* most lines of a receipt text built from ReceiptLines
MaxExpenses == 21   \* most expenses of the user read by detect_anomalies
MaxPeriods == 2   \* most periods asked of a forecast

(***************************************************************************)
(* backend/config/constants.py: the category table, in dict order.         *)
(***************************************************************************)
EXPENSE_CATEGORIES ==
  <<
   [slug |-> "food",
    keywords |-> <<
        <<"w","a","l","m","a","r","t">>,
        <<"t","a","r","g","e","t">>,
        <<"w","h","o","l","e"," ","f","o","o","d","s">>,
        <<"k","r","o","g","e","r">>,
        <<"s","a","f","e","w","a","y">>,
        <<"r","e","s","t","a","u","r","a","n","t">>,
        <<"b","a","r">>,
        <<"c","a","f","e">>,
        <<"s","t","a","r","b","u","c","k","s">>,
        <<"m","c","d","o","n","a","l","d","s">>,
        <<"s","u","b","w","a","y">>>>],
   [slug |-> "transportation",
    keywords |-> <<
        <<"g","a","s">>,
        <<"s","h","e","l","l">>,
        <<"c","h","e","v","r","o","n">>,
        <<"e","x","x","o","n">>,
        <<"b","p">>,
        <<"m","e","t","r","o">>,
        <<"b","u","s">>,
        <<"t","r","a","i","n">>,
        <<"u","b","e","r">>,
        <<"l","y","f","t">>,
        <<"p","a","r","k","i","n","g">>>>],
   [slug |-> "housing",
    keywords |-> <<
        <<"r","e","n","t">>,
        <<"w","a","t","e","r">>,
        <<"e","l","e","c","t","r","i","c","i","t","y">>,
        <<"g","a","s">>,
        <<"i","n","t","e","r","n","e","t">>,
        <<"p","h","o","n","e">>,
        <<"a","t","&","t">>,
        <<"v","e","r","i","z","o","n">>,
        <<"c","o","m","c","a","s","t">>>>],
   [slug |-> "health",
    keywords |-> <<
        <<"p","h","a","r","m","a","c","y">>,
        <<"c","v","s">>,
        <<"w","a","l","g","r","e","e","n","s">>,
        <<"d","o","c","t","o","r">>,
        <<"h","o","s","p","i","t","a","l">>,
        <<"c","l","i","n","i","c">>,
        <<"g","y","m">>,
        <<"f","i","t","n","e","s","s">>,
        <<"p","l","a","n","e","t"," ","f","i","t","n","e","s","s">>>>],
   [slug |-> "entertainment",
    keywords |-> <<
        <<"c","i","n","e","m","a">>,
        <<"t","h","e","a","t","e","r">>,
        <<"c","o","n","c","e","r","t">>,
        <<"s","p","o","t","i","f","y">>,
        <<"n","e","t","f","l","i","x">>,
        <<"h","u","l","u">>,
        <<"d","i","s","n","e","y">>,
        <<"s","t","e","a","m">>,
        <<"p","l","a","y","s","t","a","t","i","o","n">>,
        <<"x","b","o","x">>>>],
   [slug |-> "shopping",
    keywords |-> <<
        <<"a","m","a","z","o","n">>,
        <<"e","b","a","y">>,
        <<"b","e","s","t"," ","b","u","y">>,
        <<"t","a","r","g","e","t">>,
        <<"m","a","c","y">>,
        <<"n","o","r","d","s","t","r","o","m">>,
        <<"i","k","e","a">>,
        <<"h","o","m","e"," ","d","e","p","o","t">>>>],
   [slug |-> "education",
    keywords |-> <<
        <<"u","n","i","v","e","r","s","i","t","y">>,
        <<"c","o","l","l","e","g","e">>,
        <<"s","c","h","o","o","l">>,
        <<"c","o","u","r","s","e">>,
        <<"u","d","e","m","y">>,
        <<"c","o","u","r","s","e","r","a">>,
        <<"b","o","o","k">>,
        <<"a","m","a","z","o","n"," ","b","o","o","k","s">>>>],
   [slug |-> "other",
    keywords |-> <<
        >>]
  >>

\* Category.slug values; the table's keys.
Slugs == {EXPENSE_CATEGORIES[i].slug : i \in 1..Len(EXPENSE_CATEGORIES)}

\* The slugs in ascending string order (the order of numpy.unique).
SlugOrder ==
  <<"education", "entertainment", "food", "health", "housing", "other",
    "shopping", "transportation">>

(***************************************************************************)
(* Python string operations used by the classifier.                        *)
(***************************************************************************)
None == <<"None">>   \* Python's None where a string is optional

ToLower ==
  [c \in {"A","B","C","D","E","F","G","H","I","J","K","L","M","N","O","P",
          "Q","R","S","T","U","V","W","X","Y","Z"} |->
     CASE c = "A" -> "a" [] c = "B" -> "b" [] c = "C" -> "c" [] c = "D" -> "d"
       [] c = "E" -> "e" [] c = "F" -> "f" [] c = "G" -> "g" [] c = "H" -> "h"
       [] c = "I" -> "i" [] c = "J" -> "j" [] c = "K" -> "k" [] c = "L" -> "l"
       [] c = "M" -> "m" [] c = "N" -> "n" [] c = "O" -> "o" [] c = "P" -> "p"
       [] c = "Q" -> "q" [] c = "R" -> "r" [] c = "S" -> "s" [] c = "T" -> "t"
       [] c = "U" -> "u" [] c = "V" -> "v" [] c = "W" -> "w" [] c = "X" -> "x"
       [] c = "Y" -> "y" [] c = "Z" -> "z"]

\* str.lower()
Lower(s) == [i \in 1..Len(s) |-> IF s[i] \in DOMAIN ToLower THEN ToLower[s[i]] ELSE s[i]]

IsSpace(c) == c \in {" ", "\t", "\n", "\r"}

RECURSIVE LStrip(_)
LStrip(s) == IF s # <<>> /\ IsSpace(Head(s)) THEN LStrip(Tail(s)) ELSE s

RECURSIVE RStrip(_)
RStrip(s) ==
  IF s # <<>> /\ IsSpace(s[Len(s)]) THEN RStrip(SubSeq(s, 1, Len(s) - 1)) ELSE s

\* str.strip()
Strip(s) == RStrip(LStrip(s))

\* Python's "k in t" for strings
Contains(k, t) ==
  \E i \in 0..(Len(t) - Len(k)) : SubSeq(t, i + 1, i + Len(k)) = k

\* filter(None, parts): drops None and the empty string
RECURSIVE FilterNone(_)
FilterNone(parts) ==
  IF parts = <<>> THEN <<>>
  ELSE IF Head(parts) = None \/ Head(parts) = <<>>
       THEN FilterNone(Tail(parts))
       ELSE <<Head(parts)>> \o FilterNone(Tail(parts))

\* " ".join(parts)
RECURSIVE JoinSpace(_)
JoinSpace(parts) ==
  IF parts = <<>> THEN <<>>
  ELSE IF Len(parts) = 1 THEN Head(parts)
  ELSE Head(parts) \o <<" ">> \o JoinSpace(Tail(parts))

(***************************************************************************)
(* The rule stage, ExpenseClassifier._classify_by_rules.                   *)
(***************************************************************************)
Min(a, b) == IF a < b THEN a ELSE b

\* the points one keyword adds to its category (lines 146-151)
KeywordPoints(keyword, text) ==
  IF Contains(Lower(keyword), text)
  THEN IF Lower(keyword) = Strip(text) THEN 3 ELSE 1
  ELSE 0

\* the inner loop over one category's keywords (lines 142-151)
RECURSIVE CountMatches(_, _)
CountMatches(keywords, text) ==
  IF keywords = <<>> THEN 0
  ELSE KeywordPoints(Head(keywords), text) + CountMatches(Tail(keywords), text)

\* the outer loop (lines 141-155): a later category wins only with strictly
\* more points
RECURSIVE BestCategory(_, _, _, _)
BestCategory(i, text, best, maxm) ==
  IF i > Len(EXPENSE_CATEGORIES) THEN [category |-> best, matches |-> maxm]
  ELSE LET m == CountMatches(EXPENSE_CATEGORIES[i].keywords, text)
       IN  IF m > maxm
           THEN BestCategory(i + 1, text, EXPENSE_CATEGORIES[i].slug, m)
           ELSE BestCategory(i + 1, text, best, maxm)

ClassifyByRules(t) ==
  LET text == Lower(t)
      b    == BestCategory(1, text, "", 0)
  IN  IF b.category # "" /\ b.matches > 0
      THEN [category |-> b.category, confidence |-> Min(50 + b.matches * 20, 100)]
      ELSE [category |-> "others", confidence |-> 0]
(***************************************************************************)
(* Python floats (IEEE 754 binary64, round to nearest, ties to even) as    *)
(* used by the parser's confidence and by numpy in the anomaly detector.   *)
(* A natural number is a little-endian sequence of limbs below Base; a     *)
(* float is [s, m, e] with value (-1)^s * m * 2^e and 2^52 <= m < 2^53,    *)
(* or m = <<>> for zero.  Infinities, NaN, subnormals and the sign of zero *)
(* do not arise for the amounts explored and are not represented.          *)
(***************************************************************************)
Base == 32768
MantissaBits == 53

RECURSIVE NatOf(_)
NatOf(n) == IF n = 0 THEN <<>> ELSE <<n % Base>> \o NatOf(n \div Base)

RECURSIVE Trim(_)
Trim(a) == IF a # <<>> /\ a[Len(a)] = 0 THEN Trim(SubSeq(a, 1, Len(a) - 1)) ELSE a

Limb(a, i) == IF i <= Len(a) THEN a[i] ELSE 0

RECURSIVE NatAddFrom(_, _, _, _)
NatAddFrom(a, b, i, carry) ==
  IF i > Len(a) /\ i > Len(b)
  THEN IF carry = 0 THEN <<>> ELSE <<carry>>
  ELSE LET t == Limb(a, i) + Limb(b, i) + carry
       IN  <<t % Base>> \o NatAddFrom(a, b, i + 1, t \div Base)

NatAdd(a, b) == NatAddFrom(a, b, 1, 0)

\* a - b for a >= b
RECURSIVE NatSubFrom(_, _, _, _)
NatSubFrom(a, b, i, borrow) ==
  IF i > Len(a) THEN <<>>
  ELSE LET t == Limb(a, i) - Limb(b, i) - borrow
       IN  IF t < 0 THEN <<t + Base>> \o NatSubFrom(a, b, i + 1, 1)
           ELSE <<t>> \o NatSubFrom(a, b, i + 1, 0)

NatSub(a, b) == Trim(NatSubFrom(a, b, 1, 0))

\* -1, 0 or 1 as a is below, equal to or above b (both trimmed)
RECURSIVE NatCmpFrom(_, _, _)
NatCmpFrom(a, b, i) ==
  IF i = 0 THEN 0
  ELSE IF a[i] < b[i] THEN 0 - 1
  ELSE IF a[i] > b[i] THEN 1
  ELSE NatCmpFrom(a, b, i - 1)

NatCmp(a, b) ==
  IF Len(a) < Len(b) THEN 0 - 1
  ELSE IF Len(a) > Len(b) THEN 1
  ELSE NatCmpFrom(a, b, Len(a))

\* a * k for 0 <= k < Base
RECURSIVE NatMulSmallFrom(_, _, _, _)
NatMulSmallFrom(a, k, i, carry) ==
  IF i > Len(a) THEN IF carry = 0 THEN <<>> ELSE <<carry>>
  ELSE LET t == a[i] * k + carry
       IN  <<t % Base>> \o NatMulSmallFrom(a, k, i + 1, t \div Base)

NatMulSmall(a, k) == Trim(NatMulSmallFrom(a, k, 1, 0))

RECURSIVE NatMul(_, _)
NatMul(a, b) ==
  IF b = <<>> \/ a = <<>> THEN <<>>
  ELSE LET rest == NatMul(a, Tail(b))
       IN  NatAdd(NatMulSmall(a, Head(b)),
                  IF rest = <<>> THEN <<>> ELSE <<0>> \o rest)

\* floor(a / 2)
RECURSIVE HalfFrom(_, _)
HalfFrom(a, i) ==
  IF i > Len(a) THEN <<>>
  ELSE <<(a[i] \div 2) + (Limb(a, i + 1) % 2) * (Base \div 2)>> \o HalfFrom(a, i + 1)

Half(a) == Trim(HalfFrom(a, 1))

\* a * 2^k
RECURSIVE Shl(_, _)
Shl(a, k) ==
  IF a = <<>> \/ k = 0 THEN a
  ELSE IF k >= 15 THEN <<0>> \o Shl(a, k - 15)
  ELSE Shl(NatAdd(a, a), k - 1)

\* floor(a / 2^k)
RECURSIVE Shr(_, _)
Shr(a, k) ==
  IF a = <<>> \/ k = 0 THEN a
  ELSE IF k >= 15 THEN Shr(Tail(a), k - 15)
  ELSE Shr(Half(a), k - 1)

RECURSIVE IntBitLen(_)
IntBitLen(n) == IF n = 0 THEN 0 ELSE 1 + IntBitLen(n \div 2)

BitLen(a) == IF a = <<>> THEN 0 ELSE (Len(a) - 1) * 15 + IntBitLen(a[Len(a)])

IsOdd(a) == a # <<>> /\ a[1] % 2 = 1

\* floor(a * 2^k / b) and whether the division left a remainder, for
\* a < 2 * b: the quotient bits one at a time
RECURSIVE DivBits(_, _, _, _)
DivBits(q, r, b, k) ==
  IF k = 0 THEN [q |-> q, inexact |-> r # <<>>]
  ELSE LET r2 == NatAdd(r, r)
           q2 == NatAdd(q, q)
       IN  IF Len(q2) >= 0 /\ NatCmp(r2, b) >= 0
           THEN DivBits(NatAdd(q2, <<1>>), NatSub(r2, b), b, k - 1)
           ELSE DivBits(q2, r2, b, k - 1)

\* floor(sqrt(n)) and the remainder, digit by digit; bit is a power of 4
RECURSIVE SqrtBits(_, _, _)
SqrtBits(n, res, bit) ==
  IF bit = <<>> THEN [root |-> res, inexact |-> n # <<>>]
  ELSE LET t == NatAdd(res, bit)
       IN  IF NatCmp(n, t) >= 0
           THEN SqrtBits(NatSub(n, t), NatAdd(Half(res), bit), Shr(bit, 2))
           ELSE SqrtBits(n, Half(res), Shr(bit, 2))

FZero == [s |-> 0, m |-> <<>>, e |-> 0]

\* whether the quotient q is rounded up, r being what the shift dropped and
\* half the weight of the last bit kept: ties go to the even quotient
RoundsUp(q, r, half, above) ==
  LET c == NatCmp(r, half)
  IN  c > 0 \/ (c = 0 /\ (above \/ IsOdd(q)))

\* the float of mantissa q1 at exponent e, renormalised if rounding up
\* carried into a 54th bit
Normalised(s, q1, e) ==
  IF BitLen(q1) > MantissaBits
  THEN [s |-> s, m |-> Half(q1), e |-> e + 1]
  ELSE [s |-> s, m |-> q1, e |-> e]

\* n rounded to its top 53 bits q, sh bits being dropped
RoundedTo(s, n, e, above, sh, q) ==
  Normalised(s,
             IF RoundsUp(q, NatSub(n, Shl(q, sh)), Shl(<<1>>, sh - 1), above)
             THEN NatAdd(q, <<1>>) ELSE q,
             e + sh)

\* RoundNat for n of len bits
RoundBits(s, n, e, above, len) ==
  IF len = 0 THEN FZero
  ELSE IF len <= MantissaBits
  THEN [s |-> s, m |-> Shl(n, MantissaBits - len), e |-> e - (MantissaBits - len)]
  ELSE RoundedTo(s, n, e, above, len - MantissaBits, Shr(n, len - MantissaBits))

\* the float nearest to (-1)^s * n * 2^e, ties to even; above marks a true
\* value strictly between n and n + 1 (in units of 2^e)
RoundNat(s, n, e, above) == RoundBits(s, n, e, above, BitLen(n))

\* float(n) for an int n
FInt(n) ==
  RoundNat(IF n < 0 THEN 1 ELSE 0, NatOf(IF n < 0 THEN 0 - n ELSE n), 0, FALSE)

FNeg(x) == IF x.m = <<>> THEN x ELSE [x EXCEPT !.s = 1 - x.s]
FAbs(x) == [x EXCEPT !.s = 0]

\* the sum of (-1)^sx * mx * 2^e0 and (-1)^sy * my * 2^e0, c comparing mx
\* with my: the sign of the larger magnitude, zero if they cancel
AddAligned(sx, sy, mx, my, e0, c) ==
  RoundNat(IF sx = sy \/ c > 0 THEN sx ELSE sy,
           IF sx = sy THEN NatAdd(mx, my)
           ELSE IF c > 0 THEN NatSub(mx, my)
           ELSE NatSub(my, mx),
           e0, FALSE)

\* x + y for nonzero x and y, with both mantissas shifted to exponent e0
AddAt(sx, sy, mx, my, e0) == AddAligned(sx, sy, mx, my, e0, NatCmp(mx, my))

\* x + y for nonzero x and y, e0 being the smaller exponent
AddFrom(x, y, e0) ==
  AddAt(x.s, y.s, Shl(x.m, x.e - e0), Shl(y.m, y.e - e0), e0)

\* x + y
FAdd(x, y) ==
  IF x.m = <<>> THEN y
  ELSE IF y.m = <<>> THEN x
  ELSE AddFrom(x, y, IF x.e < y.e THEN x.e ELSE y.e)

\* x - y
FSub(x, y) == FAdd(x, FNeg(y))

\* x * y
FMul(x, y) ==
  IF x.m = <<>> \/ y.m = <<>> THEN FZero
  ELSE RoundNat((x.s + y.s) % 2, NatMul(x.m, y.m), x.e + y.e, FALSE)

\* the float of the quotient bits d at exponent e
QuotientFloat(s, d, e) == RoundNat(s, d.q, e, d.inexact)

\* x / y for nonzero x and y, c comparing the mantissas
DivFrom(x, y, c) ==
  QuotientFloat((x.s + y.s) % 2,
                DivBits(IF c >= 0 THEN <<1>> ELSE <<>>,
                        IF c >= 0 THEN NatSub(x.m, y.m) ELSE x.m,
                        y.m, MantissaBits + 3),
                x.e - y.e - (MantissaBits + 3))

\* x / y for y # 0
FDiv(x, y) ==
  IF x.m = <<>> THEN FZero ELSE DivFrom(x, y, NatCmp(x.m, y.m))

\* the float of the root bits r at exponent e
RootFloat(r, e) == RoundNat(0, r.root, e, r.inexact)

\* the highest power of 4 not above n
TopPower(top) == Shl(<<1>>, top - (top % 2))

\* sqrt(m * 2^e) by the root of n = m * 2^sh, e - sh being even
SqrtOf(n, e) == RootFloat(SqrtBits(n, <<>>, TopPower(BitLen(n) - 1)), e \div 2)

\* sqrt(x) for x > 0, the mantissa shifted by sh to make the exponent even
SqrtFrom(x, sh) == SqrtOf(Shl(x.m, sh), x.e - sh)

\* sqrt(x) for x >= 0
FSqrt(x) ==
  IF x.m = <<>> THEN FZero
  ELSE SqrtFrom(x, IF (x.e - (MantissaBits + 5)) % 2 = 0
                   THEN MantissaBits + 5 ELSE MantissaBits + 6)

\* x < y
FLt(x, y) ==
  IF x.m = <<>> THEN y.m # <<>> /\ y.s = 0
  ELSE IF y.m = <<>> THEN x.s = 1
  ELSE IF x.s # y.s THEN x.s = 1
  ELSE LET below == x.e < y.e \/ (x.e = y.e /\ NatCmp(x.m, y.m) < 0)
           above == x.e > y.e \/ (x.e = y.e /\ NatCmp(x.m, y.m) > 0)
       IN  IF x.s = 0 THEN below ELSE above

FGt(x, y) == FLt(y, x)
FLe(x, y) == ~FLt(y, x)

\* the float a decimal literal n / d denotes
FDec(n, d) == FDiv(FInt(n), FInt(d))
FEq(a, b) == ~FLt(a, b) /\ ~FLt(b, a)

(***************************************************************************)
(* backend/services/parser_service.py: the receipt field extractor.        *)
(* Amounts are integers in hundredths (12.50 is 1250); a datetime is the   *)
(* number of days from today's midnight to its own midnight.               *)
(***************************************************************************)
Digits == {"0","1","2","3","4","5","6","7","8","9"}

DigitVal ==
  [c \in Digits |->
     CASE c = "0" -> 0 [] c = "1" -> 1 [] c = "2" -> 2 [] c = "3" -> 3
       [] c = "4" -> 4 [] c = "5" -> 5 [] c = "6" -> 6 [] c = "7" -> 7
       [] c = "8" -> 8 [] c = "9" -> 9]

LowerLetters == {ToLower[c] : c \in DOMAIN ToLower}

\* \d, \w and the case tests of str.isupper
IsDigit(c) == c \in Digits
IsWordChar(c) == c \in DOMAIN ToLower \/ c \in LowerLetters \/ c \in Digits \/ c = "_"

\* str.upper()
Upper(s) ==
  [i \in 1..Len(s) |->
     IF s[i] \in LowerLetters
     THEN CHOOSE c \in DOMAIN ToLower : ToLower[c] = s[i]
     ELSE s[i]]

\* the character at 1-based position i, or "" past the end
At(t, i) == IF i >= 1 /\ i <= Len(t) THEN t[i] ELSE ""

\* the length of the longest run of digits that starts at position i
RECURSIVE DigitRun(_, _)
DigitRun(t, i) == IF IsDigit(At(t, i)) THEN 1 + DigitRun(t, i + 1) ELSE 0

\* the length of the longest run of \s that starts at position i
RECURSIVE SpaceRun(_, _)
SpaceRun(t, i) == IF IsSpace(At(t, i)) THEN 1 + SpaceRun(t, i + 1) ELSE 0

\* the length of the longest run of \w that starts at position i
RECURSIVE WordRun(_, _)
WordRun(t, i) == IF IsWordChar(At(t, i)) THEN 1 + WordRun(t, i + 1) ELSE 0

\* the length of the longest run of [:\s] that starts at position i
RECURSIVE ColonSpaceRun(_, _)
ColonSpaceRun(t, i) ==
  IF At(t, i) = ":" \/ IsSpace(At(t, i)) THEN 1 + ColonSpaceRun(t, i + 1) ELSE 0

\* int(digits)
RECURSIVE IntOf(_)
IntOf(d) == IF d = <<>> THEN 0 ELSE IntOf(SubSeq(d, 1, Len(d) - 1)) * 10 + DigitVal[d[Len(d)]]

NoMatch == [ok |-> FALSE, end |-> 0, amount |-> 0]

\* ([0-9]+[.,][0-9]{2}) at position i, and float() of the group after
\* replace(',', '.'): the digits can only be the whole run
AmountAt(t, i) ==
  LET d == DigitRun(t, i)
  IN  IF d >= 1 /\ At(t, i + d) \in {".", ","}
         /\ IsDigit(At(t, i + d + 1)) /\ IsDigit(At(t, i + d + 2))
      THEN [ok |-> TRUE, end |-> i + d + 3,
            amount |-> IntOf(SubSeq(t, i, i + d - 1)) * 100
                       + IntOf(SubSeq(t, i + d + 1, i + d + 2))]
      ELSE NoMatch

\* word[:\s]+([0-9]+[.,][0-9]{2}) at position i, ignoring case
KeywordAmountAt(word, t, i) ==
  LET n == Len(word)
      g == ColonSpaceRun(t, i + n)
  IN  IF i + n - 1 <= Len(t) /\ Lower(SubSeq(t, i, i + n - 1)) = word /\ g >= 1
      THEN AmountAt(t, i + n + g)
      ELSE NoMatch

\* OCR_PATTERNS["total"], in order, tried at position i
TotalPatterns == 1..4

TotalPatternAt(p, t, i) ==
  CASE p = 1 -> KeywordAmountAt(<<"t","o","t","a","l">>, t, i)
    [] p = 2 -> KeywordAmountAt(<<"a","m","o","u","n","t">>, t, i)
    [] p = 3 -> IF At(t, i) = "$"
                THEN AmountAt(t, i + 1 + SpaceRun(t, i + 1))
                ELSE NoMatch
    [] p = 4 -> LET a == AmountAt(t, i)
                    e == a.end + SpaceRun(t, a.end)
                IN  IF a.ok /\ At(t, e) = "$"
                    THEN [a EXCEPT !.end = e + 1]
                    ELSE NoMatch

\* re.finditer(pattern, text, re.IGNORECASE): the matches from left to
\* right, each search resuming where the last match ended
RECURSIVE FindIter(_, _, _)
FindIter(p, t, i) ==
  IF i > Len(t) THEN <<>>
  ELSE LET m == TotalPatternAt(p, t, i)
       IN  IF m.ok THEN <<m.amount>> \o FindIter(p, t, m.end)
           ELSE FindIter(p, t, i + 1)

\* €?\s*(\d+[.,]\d{2})\s*€? at position i
CurrencyPatternAt(t, i) ==
  LET j == IF At(t, i) = "€" THEN i + 1 ELSE i
      a == AmountAt(t, j + SpaceRun(t, j))
      e == a.end + SpaceRun(t, a.end)
  IN  IF a.ok THEN [a EXCEPT !.end = IF At(t, e) = "€" THEN e + 1 ELSE e]
      ELSE NoMatch

\* re.findall(currency_pattern, text)
RECURSIVE FindAllCurrency(_, _)
FindAllCurrency(t, i) ==
  IF i > Len(t) THEN <<>>
  ELSE LET m == CurrencyPatternAt(t, i)
       IN  IF m.ok THEN <<m.amount>> \o FindAllCurrency(t, m.end)
           ELSE FindAllCurrency(t, i + 1)

\* max() of a non-empty list
RECURSIVE MaxOf(_)
MaxOf(s) ==
  IF Len(s) = 1 THEN s[1]
  ELSE LET m == MaxOf(Tail(s)) IN IF s[1] >= m THEN s[1] ELSE m

\* the loop of lines 93-103
RECURSIVE PrimaryAmounts(_, _)
PrimaryAmounts(p, text) ==
  IF p > 4 THEN <<>>
  ELSE FindIter(p, text, 1) \o PrimaryAmounts(p + 1, text)

NoAmount == 0 - 1   \* None where an amount is optional

\* as extract_total, with the currency pattern consulted every time
extract_total_widened(text) ==
  LET amounts == PrimaryAmounts(1, text) \o FindAllCurrency(text, 1)
  IN  IF amounts # <<>> THEN MaxOf(amounts) ELSE NoAmount

\* ReceiptParser.extract_total
extract_total(text) ==
  LET amounts == PrimaryAmounts(1, text)
      matches == FindAllCurrency(text, 1)
  IN  IF amounts # <<>> THEN MaxOf(amounts)
      ELSE IF matches # <<>> THEN MaxOf(matches)
      ELSE NoAmount

\* str.split('\n')
RECURSIVE SplitLines(_, _)
SplitLines(t, line) ==
  IF t = <<>> THEN <<line>>
  ELSE IF Head(t) = "\n" THEN <<line>> \o SplitLines(Tail(t), <<>>)
  ELSE SplitLines(Tail(t), Append(line, Head(t)))

\* str.isupper(): a cased character, and none of them lower case
IsUpper(s) ==
  /\ \E i \in 1..Len(s) : s[i] \in DOMAIN ToLower
  /\ \A i \in 1..Len(s) : s[i] \notin LowerLetters

\* re.sub(r'[^A-Z\s]', '', line)
RECURSIVE KeepUpperAndSpace(_)
KeepUpperAndSpace(s) ==
  IF s = <<>> THEN <<>>
  ELSE IF Head(s) \in DOMAIN ToLower \/ IsSpace(Head(s))
       THEN <<Head(s)>> \o KeepUpperAndSpace(Tail(s))
       ELSE KeepUpperAndSpace(Tail(s))

\* known_merchants (lines 147-152)
KnownMerchants ==
  << <<"m","e","r","c","a","d","o","n","a">>, <<"c","a","r","r","e","f","o","u","r">>, <<"l","i","d","l">>, <<"d","i","a">>, <<"a","l","c","a","m","p","o">>,
     <<"e","r","o","s","k","i">>, <<"a","l","d","i">>, <<"h","i","p","e","r","c","o","r">>, <<"e","l"," ","c","o","r","t","e"," ","i","n","g","l","e","s">>,
     <<"d","e","c","a","t","h","l","o","n">>, <<"m","e","d","i","a"," ","m","a","r","k","t">>, <<"f","n","a","c">>, <<"i","k","e","a">>, <<"z","a","r","a">>,
     <<"m","c","d","o","n","a","l","d","s">>, <<"b","u","r","g","e","r"," ","k","i","n","g">>, <<"t","e","l","e","p","i","z","z","a">>, <<"d","o","m","i","n","o","s">> >>

\* the first known merchant the lower-cased line contains, or None
FirstKnownMerchant(lineLower) ==
  LET hits == {k \in 1..Len(KnownMerchants) : Contains(KnownMerchants[k], lineLower)}
  IN  IF hits = {} THEN None
      ELSE Upper(KnownMerchants[CHOOSE k \in hits : \A h \in hits : k <= h])

\* the loop over lines[:5] (lines 136-157)
RECURSIVE MerchantInTopLines(_, _)
MerchantInTopLines(lines, i) ==
  IF i > Len(lines) \/ i > 5 THEN None
  ELSE LET line    == Strip(lines[i])
           cleaned == KeepUpperAndSpace(line)
           known   == FirstKnownMerchant(Lower(line))
       IN  IF Len(line) > 3 /\ IsUpper(line) /\ Len(cleaned) > 3
           THEN Strip(cleaned)
           ELSE IF known # None THEN known
           ELSE MerchantInTopLines(lines, i + 1)

\* the loop of lines 160-163
RECURSIVE FirstLongLine(_, _)
FirstLongLine(lines, i) ==
  IF i > Len(lines) THEN None
  ELSE IF Len(Strip(lines[i])) > 3 THEN SubSeq(Strip(lines[i]), 1, Min(50, Len(Strip(lines[i]))))
  ELSE FirstLongLine(lines, i + 1)

\* ReceiptParser.extract_merchant
extract_merchant(text) ==
  LET lines == SplitLines(text, <<>>)
      top   == MerchantInTopLines(lines, 1)
  IN  IF top # None THEN top ELSE FirstLongLine(lines, 1)

\* as ItemTailAt, with a dollar sign allowed after the price too
ItemTailAtAnyCurrency(line, k) ==
  LET w == SpaceRun(line, k + 1)
      a == AmountAt(line, k + 1 + w)
      e == a.end + SpaceRun(line, a.end)
      f == IF At(line, e) \in {"€", "$"} THEN e + 1 ELSE e
  IN  IF w >= 1 /\ a.ok /\ f = Len(line) + 1 THEN a ELSE NoMatch

\* \s+(\d+[.,]\d{2})\s*€?$ from position k + 1 of a stripped line
ItemTailAt(line, k) ==
  LET w == SpaceRun(line, k + 1)
      a == AmountAt(line, k + 1 + w)
      e == a.end + SpaceRun(line, a.end)
      f == IF At(line, e) = "€" THEN e + 1 ELSE e
  IN  IF w >= 1 /\ a.ok /\ f = Len(line) + 1 THEN a ELSE NoMatch

\* re.match(item_pattern, line): the lazy (.+?) takes the fewest characters
\* that let the rest of the pattern match
ItemMatch(line) ==
  LET ks == {k \in 1..Len(line) : ItemTailAt(line, k).ok}
  IN  IF ks = {} THEN <<>>
      ELSE LET k == CHOOSE j \in ks : \A h \in ks : j <= h
           IN  << [description |-> Strip(SubSeq(line, 1, k)),
                   price |-> ItemTailAt(line, k).amount] >>

\* the loop of lines 184-199
RECURSIVE ItemsOf(_, _)
ItemsOf(lines, i) ==
  IF i > Len(lines) THEN <<>>
  ELSE ItemMatch(Strip(lines[i])) \o ItemsOf(lines, i + 1)

\* ReceiptParser.extract_items
extract_items(text) == ItemsOf(SplitLines(text, <<>>), 1)

\* payment_keywords (lines 215-222), in dict order
PaymentKeywords ==
  << [method |-> "cash",        keywords |-> <<<<"e","f","e","c","t","i","v","o">>, <<"c","a","s","h">>, <<"m","e","t","a","l","i","c","o">>>>],
     [method |-> "card",        keywords |-> <<<<"t","a","r","j","e","t","a">>, <<"c","a","r","d">>, <<"v","i","s","a">>, <<"m","a","s","t","e","r","c","a","r","d">>>>],
     [method |-> "debit_card",  keywords |-> <<<<"d","e","b","i","t","o">>, <<"d","e","b","i","t">>>>],
     [method |-> "credit_card", keywords |-> <<<<"c","r","e","d","i","t","o">>, <<"c","r","e","d","i","t">>>>],
     [method |-> "bizum",       keywords |-> <<<<"b","i","z","u","m">>>>],
     [method |-> "transfer",    keywords |-> <<<<"t","r","a","n","s","f","e","r","e","n","c","i","a">>, <<"t","r","a","n","s","f","e","r">>>>] >>

\* ReceiptParser.extract_payment_method
extract_payment_method(text) ==
  LET lower == Lower(text)
      hits  == {k \in 1..Len(PaymentKeywords) :
                  \E j \in 1..Len(PaymentKeywords[k].keywords) :
                     Contains(PaymentKeywords[k].keywords[j], lower)}
  IN  IF hits = {} THEN "None"
      ELSE PaymentKeywords[CHOOSE k \in hits : \A h \in hits : k <= h].method

\* n digits from position i
DigitsAt(t, i, n) == \A k \in 0..(n - 1) : IsDigit(At(t, i + k))

\* \d{1,2}[-/]\d{1,2}[-/]\d{2,4} at position i with group lengths a, b, c;
\* inWords adds the \b of the general pattern on both sides
DateShape(t, i, a, b, c, inWords) ==
  /\ DigitsAt(t, i, a) /\ At(t, i + a) \in {"-", "/"}
  /\ DigitsAt(t, i + a + 1, b) /\ At(t, i + a + b + 1) \in {"-", "/"}
  /\ DigitsAt(t, i + a + b + 2, c)
  /\ inWords => /\ ~IsWordChar(At(t, i - 1))
                /\ ~IsWordChar(At(t, i + a + b + c + 2))

\* the length matched at position i, 0 for none: each group takes as many
\* digits as a match allows, the leftmost group first
DateShapeAt(t, i, inWords) ==
  LET fits == {g \in (1..2) \X (1..2) \X (2..4) :
                 DateShape(t, i, g[1], g[2], g[3], inWords)}
  IN  IF fits = {} THEN 0
      ELSE LET g == CHOOSE f \in fits : \A h \in fits :
                      \/ f[1] > h[1]
                      \/ (f[1] = h[1] /\ f[2] > h[2])
                      \/ (f[1] = h[1] /\ f[2] = h[2] /\ f[3] >= h[3])
           IN  g[1] + g[2] + g[3] + 2

\* \d{1,2}\s+\w+\s+\d{4} at position i: the length matched, 0 for none
DateWordsAt(t, i) ==
  LET a  == DigitRun(t, i)
      w1 == SpaceRun(t, i + a)
      n  == WordRun(t, i + a + w1)
      w2 == SpaceRun(t, i + a + w1 + n)
  IN  IF a \in 1..2 /\ w1 >= 1 /\ n >= 1 /\ w2 >= 1
         /\ DigitsAt(t, i + a + w1 + n + w2, 4)
      THEN a + w1 + n + w2 + 4
      ELSE 0

\* OCR_PATTERNS["date"] in order (1, 2) and the general pattern (3)
DatePatternAt(p, t, i) ==
  CASE p = 1 -> DateShapeAt(t, i, FALSE)
    [] p = 2 -> DateWordsAt(t, i)
    [] p = 3 -> DateShapeAt(t, i, TRUE)

\* re.search(pattern, text).group(1): the leftmost match, or None
DateSearch(p, t) ==
  LET starts == {i \in 1..Len(t) : DatePatternAt(p, t, i) > 0}
  IN  IF starts = {} THEN None
      ELSE LET i == CHOOSE j \in starts : \A h \in starts : j <= h
           IN  SubSeq(t, i, i + DatePatternAt(p, t, i) - 1)

\* the strings extract_date can hand to dateutil
DateCandidates(text) ==
  {DateSearch(p, Lower(text)) : p \in 1..3} \ {None}

NoDate == [found |-> FALSE, day |-> 0]

Today == 0

\* the days dateutil's answers are drawn from: tomorrow, today, a year ago
\* and the day before that
DateDays == {Today + 1, Today, Today - 365, Today - 366}

\* what dateutil's parse can return for a matched string: a datetime, or
\* found = FALSE when it raises.  Which one is dateutil's matter.
ParseOutcomes == {NoDate} \cup {[found |-> TRUE, day |-> d] : d \in DateDays}

\* the loop of lines 55-64 and then lines 68-75
RECURSIVE DateFrom(_, _, _)
DateFrom(p, text, parse) ==
  IF p > 3 THEN NoDate
  ELSE LET m == DateSearch(p, text)
       IN  IF m # None /\ parse[m].found THEN parse[m]
           ELSE DateFrom(p + 1, text, parse)

\* ReceiptParser.extract_date, given dateutil's answers
extract_date(text, parse) == DateFrom(1, Lower(text), parse)

\* ReceiptParser.parse_receipt
parse_receipt(text, parse) ==
  [date           |-> extract_date(text, parse),
   merchant       |-> extract_merchant(text),
   total          |-> extract_total(text),
   items          |-> extract_items(text),
   payment_method |-> extract_payment_method(text),
   raw_text       |-> text]

\* the truth value Python gives each field of parsed_data
HasDate(parsed)     == parsed.date.found
HasTotal(parsed)    == parsed.total # NoAmount /\ parsed.total # 0
HasMerchant(parsed) == parsed.merchant # None /\ parsed.merchant # <<>>
HasItems(parsed)    == parsed.items # <<>>

\* the float literals of calculate_confidence
DateWeight     == FDec(3, 10)
TotalWeight    == FDec(4, 10)
MerchantWeight == FDec(2, 10)
ItemsWeight    == FDec(1, 10)
FOne           == FInt(1)

\* confidence += weight, when the field was found (lines 244-254)
AddIf(found, confidence, weight) ==
  IF found THEN FAdd(confidence, weight) ELSE confidence

\* ReceiptParser.calculate_confidence
calculate_confidence(parsed) ==
  LET c1 == AddIf(HasDate(parsed), FZero, DateWeight)
      c2 == AddIf(HasTotal(parsed) /\ parsed.total > 0, c1, TotalWeight)
      c3 == AddIf(HasMerchant(parsed), c2, MerchantWeight)
      c4 == AddIf(HasItems(parsed), c3, ItemsWeight)
  IN  IF FLt(c4, FOne) THEN c4 ELSE FOne

\* as validate_parsed_data, with the future date only logged
validate_parsed_data_lenient(parsed, now) ==
  IF ~HasTotal(parsed) \/ parsed.total <= 0
  THEN [valid |-> FALSE, warned |-> FALSE]
  ELSE [valid |-> TRUE,
        warned |-> HasDate(parsed)
                   /\ (parsed.date.day > now \/ now - parsed.date.day > 365)]

\* ReceiptParser.validate_parsed_data; warned is the logger.warning of
\* line 283
validate_parsed_data(parsed, now) ==
  IF ~HasTotal(parsed) \/ parsed.total <= 0
  THEN [valid |-> FALSE, warned |-> FALSE]
  ELSE IF HasDate(parsed) /\ parsed.date.day > now
  THEN [valid |-> FALSE, warned |-> FALSE]
  ELSE [valid |-> TRUE,
        warned |-> HasDate(parsed) /\ now - parsed.date.day > 365]
(***************************************************************************)
(* backend/services/analytics_service.py: detect_anomalies.  An expense is *)
(* [id, amount] with the amount a float; the other columns play no part.   *)
(***************************************************************************)
MinAnomalyData == 10   \* line 172
MaxAnomalies   == 20   \* line 204

\* ANOMALY_THRESHOLDS["z_score"]
DefaultThreshold == FInt(3)

\* res += a[i] for i from lo to hi
RECURSIVE SumInto(_, _, _, _)
SumInto(res, a, lo, hi) ==
  IF lo > hi THEN res ELSE SumInto(FAdd(res, a[lo]), a, lo + 1, hi)

\* the accumulator r[k] of numpy's pairwise sum: a[k], a[k + 8], ... below
\* the last whole block of 8
RECURSIVE Lane(_, _, _, _)
Lane(res, a, i, stop) ==
  IF i > stop THEN res ELSE Lane(FAdd(res, a[i]), a, i + 8, stop)

\* numpy's add.reduce over a contiguous float64 array of at most 128
\* elements: a plain loop below 8 elements, else 8 accumulators combined
\* pairwise and the remainder added one by one
\* ((r[1] + r[2]) + (r[3] + r[4])) + ((r[5] + r[6]) + (r[7] + r[8])) for
\* lo = 1 and hi = 8
RECURSIVE Combined(_, _, _)
Combined(r, lo, hi) ==
  IF lo = hi THEN r[lo]
  ELSE FAdd(Combined(r, lo, (lo + hi) \div 2),
            Combined(r, (lo + hi) \div 2 + 1, hi))

\* the 8 accumulators over the whole blocks of 8 of a
Lanes(a, whole) == [k \in 1..8 |-> Lane(a[k], a, k + 8, whole)]

\* the sum of the first whole elements of a, whole a multiple of 8
BlockSum(a, whole) ==
  IF whole = 0 THEN FZero ELSE Combined(Lanes(a, whole), 1, 8)

\* numpy's add.reduce over a contiguous float64 array of at most 128
\* elements: a plain loop below 8 elements, else 8 accumulators combined
\* pairwise and the remainder added one by one
PairwiseSum(a) ==
  SumInto(BlockSum(a, Len(a) - (Len(a) % 8)), a,
          Len(a) - (Len(a) % 8) + 1, Len(a))

\* np.mean
Mean(a) == FDiv(PairwiseSum(a), FInt(Len(a)))

\* np.std: the root of the mean squared deviation from the mean
\* x * x
Square(x) == FMul(x, x)

\* the squared deviations of a from m
SquaredDeviations(a, m) == [i \in 1..Len(a) |-> Square(FSub(a[i], m))]

\* np.std: the root of the mean squared deviation from the mean
Std(a) == FSqrt(Mean(SquaredDeviations(a, Mean(a))))

\* line 188
ZScore(amount, mean, std) == FAbs(FDiv(FSub(amount, mean), std))

\* as IsAnomaly, with the threshold itself counted as anomalous
IsAnomalyInclusive(z, threshold) == ~FLt(z, threshold)

\* line 190
IsAnomaly(z, threshold) == FGt(z, threshold)

\* lines 188 and 191-199: the entry of an expense, were it anomalous
AnomalyEntry(expense, mean, std) ==
  [expense_id |-> expense.id,
   amount     |-> expense.amount,
   z_score    |-> ZScore(expense.amount, mean, std),
   deviation  |-> FSub(expense.amount, mean)]

\* the loop of lines 187-199
RECURSIVE Anomalies(_, _, _, _, _)
Anomalies(expenses, i, mean, std, threshold) ==
  IF i > Len(expenses) THEN <<>>
  ELSE LET e == AnomalyEntry(expenses[i], mean, std)
       IN  (IF IsAnomaly(e.z_score, threshold) THEN <<e>> ELSE <<>>)
           \o Anomalies(expenses, i + 1, mean, std, threshold)

\* one more entry into a list sorted by descending z_score, behind the
\* entries that compare equal
RECURSIVE InsertByZ(_, _)
InsertByZ(s, x) ==
  IF s = <<>> THEN <<x>>
  ELSE IF FLt(Head(s).z_score, x.z_score) THEN <<x>> \o s
  ELSE <<Head(s)>> \o InsertByZ(Tail(s), x)

\* list.sort(key=z_score, reverse=True): stable
RECURSIVE SortByZ(_, _)
SortByZ(s, n) == IF n = 0 THEN <<>> ELSE InsertByZ(SortByZ(s, n - 1), s[n])

\* as EnoughData, with two more expenses asked for
EnoughDataTwelve(expenses) == ~(Len(expenses) < MinAnomalyData + 2)

\* line 172
EnoughData(expenses) == ~(Len(expenses) < MinAnomalyData)

\* lines 201-204: the anomalies found, highest z_score first, 20 at most
TopAnomalies(found) ==
  SubSeq(SortByZ(found, Len(found)), 1, Min(MaxAnomalies, Len(found)))

\* lines 182-204, mean and std being those of lines 179-180
DetectFrom(expenses, threshold, mean, std) ==
  IF FEq(std, FZero)
  THEN [result |-> <<>>, mean |-> mean, std |-> std]
  ELSE [result |-> TopAnomalies(Anomalies(expenses, 1, mean, std, threshold)),
        mean |-> mean, std |-> std]

\* line 176
AmountsOf(expenses) == [i \in 1..Len(expenses) |-> expenses[i].amount]

\* AnalyticsService.detect_anomalies on the user's expenses: the list
\* returned, with the mean and std it computed on the way
detect_anomalies(expenses, threshold) ==
  IF ~EnoughData(expenses)
  THEN [result |-> <<>>, mean |-> FZero, std |-> FZero]
  ELSE DetectFrom(expenses, threshold,
                  Mean(AmountsOf(expenses)), Std(AmountsOf(expenses)))
(***************************************************************************)
(* backend/services/prediction_service.py and ml/predictor/model.py: the   *)
(* forecasts.  A row of the expenses DataFrame is [month, amount,          *)
(* category], the month counted from some first calendar month and the     *)
(* amount in whole currency units.  The least-squares line is computed     *)
(* exactly: a number is a fraction [n, d] with d > 0, and only the         *)
(* residual standard error is rounded (down, to 1/d).                      *)
(***************************************************************************)
MinDataPoints == 30   \* PREDICTION_CONFIG["min_data_points"]
ConfidenceInterval == 95   \* PREDICTION_CONFIG["confidence_interval"], in percent

Frac(n, d) == [n |-> n, d |-> d]
FracZero == Frac(0, 1)
FracAdd(x, y) ==
  IF x.d = y.d THEN Frac(x.n + y.n, x.d)
  ELSE Frac(x.n * y.d + y.n * x.d, x.d * y.d)
FracSub(x, y) ==
  IF x.d = y.d THEN Frac(x.n - y.n, x.d)
  ELSE Frac(x.n * y.d - y.n * x.d, x.d * y.d)
FracLt(x, y) == IF x.d = y.d THEN x.n < y.n ELSE x.n * y.d < y.n * x.d
FracLe(x, y) == ~FracLt(y, x)

\* as NonNegative, without the clamp
NonNegativeUnclamped(x) == x

\* max(0, x) (lines 116-117 of the service, 83 and 122 of the model)
NonNegative(x) == IF FracLt(FracZero, x) THEN x ELSE FracZero

\* expenses_data[expenses_data['category'] == category]
FilterCategory(rows, category) == SelectSeq(rows, LAMBDA r : r.category = category)

\* the sum of the amounts of the rows of month m
RECURSIVE MonthTotal(_, _)
MonthTotal(rows, m) ==
  IF rows = <<>> THEN 0
  ELSE (IF Head(rows).month = m THEN Head(rows).amount ELSE 0)
       + MonthTotal(Tail(rows), m)

\* groupby(pd.Grouper(key='date', freq='M'))['amount'].sum(): one bucket
\* for every calendar month from the first to the last, empty ones too
MonthlyData(rows) ==
  IF rows = <<>> THEN <<>>
  ELSE LET months == {rows[i].month : i \in 1..Len(rows)}
           first  == CHOOSE m \in months : \A k \in months : m <= k
           last   == CHOOSE m \in months : \A k \in months : m >= k
       IN  [i \in 1..(last - first + 1) |-> MonthTotal(rows, first + i - 1)]

RECURSIVE SumSeq(_)
SumSeq(s) == IF s = <<>> THEN 0 ELSE Head(s) + SumSeq(Tail(s))

\* a LinearRegression as constructed: no coef_ yet
Unfit == [fitted |-> FALSE, k |-> 1, a |-> 0, b |-> 0]

\* LinearRegression.fit(X, y) for X = 0..n-1: the line (a + b * x) / k of
\* least squares; one bucket gives the constant y[1]
FitLine(y) ==
  LET n   == Len(y)
      sx  == SumSeq([i \in 1..n |-> i - 1])
      sy  == SumSeq(y)
      sxx == SumSeq([i \in 1..n |-> (i - 1) * (i - 1)])
      sxy == SumSeq([i \in 1..n |-> (i - 1) * y[i]])
      d   == n * sxx - sx * sx
      c   == n * sxy - sx * sy
  IN  IF n = 1 THEN [fitted |-> TRUE, k |-> 1, a |-> y[1], b |-> 0]
      ELSE [fitted |-> TRUE, k |-> n * d, a |-> d * sy - c * sx, b |-> c * n]

\* LinearRegression.predict([[x]])
PredictAt(line, x) == Frac(line.a + line.b * x, line.k)

\* floor(sqrt(n)), digit by digit; bit is a power of 4
RECURSIVE ISqrtFrom(_, _, _)
ISqrtFrom(n, res, bit) ==
  IF bit = 0 THEN res
  ELSE IF n >= res + bit
       THEN ISqrtFrom(n - (res + bit), (res \div 2) + bit, bit \div 4)
       ELSE ISqrtFrom(n, res \div 2, bit \div 4)

RECURSIVE TopBit(_, _)
TopBit(n, bit) == IF bit * 4 > n THEN bit ELSE TopBit(n, bit * 4)

ISqrt(n) == IF n = 0 THEN 0 ELSE ISqrtFrom(n, 0, TopBit(n, 1))

\* np.std(y - model.predict(X)) (lines 101-102), in units of 1 / line.k
StdError(line, y) ==
  LET r == [i \in 1..Len(y) |-> line.k * y[i] - (line.a + line.b * (i - 1))]
  IN  Frac(ISqrt(SumSeq([i \in 1..Len(y) |-> r[i] * r[i]]) \div Len(y)), line.k)

\* z_score * std_error with z_score = 1.96 (lines 103-106)
MarginOfError(se) == Frac(196 * se.n, 100 * se.d)

\* one entry of results (lines 112-120); month is the calendar month of the
\* entry, counted as the buckets are, from 0 for the first one
ForecastPoint(month, pred, margin) ==
  [month            |-> month,
   predicted_amount |-> NonNegative(pred),
   lower_bound      |-> NonNegative(FracSub(pred, margin)),
   upper_bound      |-> FracAdd(pred, margin),
   confidence       |-> ConfidenceInterval]

\* z_score of line 114 of the model for a confidence level in percent, in
\* units of 1/125: 1.96 or 2.576
ZValue(confidence_level) == IF confidence_level = 95 THEN 245 ELSE 322

\* one entry of ExpensePredictorModel.predict_future (lines 111-125): pred
\* comes clamped from predict, the margin is z_score * (pred * 0.1)
PredictorPoint(x, pred, confidence_level) ==
  LET margin == Frac(ZValue(confidence_level) * pred.n, 1250 * pred.d)
  IN  [month            |-> x,
       predicted_amount |-> pred,
       lower_bound      |-> NonNegative(FracSub(pred, margin)),
       upper_bound      |-> FracAdd(pred, margin),
       confidence       |-> confidence_level]

\* DataFrame['category'].unique(): in order of first appearance
RECURSIVE UniqueCategories(_, _)
UniqueCategories(rows, seen) ==
  IF rows = <<>> THEN <<>>
  ELSE IF Head(rows).category \in seen THEN UniqueCategories(Tail(rows), seen)
  ELSE <<Head(rows).category>>
       \o UniqueCategories(Tail(rows), seen \cup {Head(rows).category})

(***************************************************************************)
(* detect_trend of the prediction service and get_trend_direction of the   *)
(* predictor model.                                                        *)
(***************************************************************************)
TrendSlope     == 10   \* lines 198 and 200 of the service, 159 and 161 of the model
MinTrendMonths == 2    \* line 185 of the service

\* model.coef_[0]
Slope(line) == Frac(line.b, line.k)

\* as TrendLabel, with the slopes of exactly 10 and -10 given a direction
TrendLabelInclusive(slope) ==
  IF ~FracLt(slope, Frac(TrendSlope, 1)) THEN "increasing"
  ELSE IF ~FracLt(Frac(0 - TrendSlope, 1), slope) THEN "decreasing"
  ELSE "stable"

\* lines 198-203 of the service, 159-164 of the model
TrendLabel(slope) ==
  IF FracLt(Frac(TrendSlope, 1), slope) THEN "increasing"
  ELSE IF FracLt(slope, Frac(0 - TrendSlope, 1)) THEN "decreasing"
  ELSE "stable"

\* the dict returned at line 186
InsufficientTrend == [trend |-> "insufficient_data", slope |-> FracZero]

\* the dict returned by the except branch (lines 211-213)
TrendError == [trend |-> "error", slope |-> FracZero]

\* the dict returned at lines 205-209
TrendOf(slope) == [trend |-> TrendLabel(slope), slope |-> slope]

\* lines 185-209, y being the monthly totals of lines 181-183
TrendFrom(y) ==
  IF Len(y) < MinTrendMonths THEN InsufficientTrend
  ELSE TrendOf(Slope(FitLine(y)))

\* PredictionService.detect_trend: a DataFrame without a date column (as
\* pd.DataFrame([]) is) raises KeyError at line 180, inside the try
detect_trend(rows, has_date) ==
  IF ~has_date THEN TrendError ELSE TrendFrom(MonthlyData(rows))

\* ExpensePredictorModel.get_trend_direction
get_trend_direction(m) ==
  IF ~m.is_fitted THEN "unknown" ELSE TrendLabel(Slope(m.line))

(***************************************************************************)
(* The statistical pipeline.  A fitted stage is named by the training      *)
(* that fitted it: 0 is the bootstrap training on the keyword rows, 1, 2,  *)
(* ... are the retrain calls in the order they reach the fit.              *)
(***************************************************************************)
Unfitted == 0 - 1     \* a stage whose fit raised before it had any state

\* the synthetic rows of _create_default_model (lines 64-75)
RECURSIVE KeywordRows(_, _)
KeywordRows(keywords, category) ==
  IF keywords = <<>> THEN <<>>
  ELSE << [x |-> Head(keywords), y |-> category],
          [x |-> <<"p","u","r","c","h","a","s","e"," ","a","t"," ">> \o Head(keywords),
           y |-> category] >>
       \o KeywordRows(Tail(keywords), category)

RECURSIVE TrainingRows(_)
TrainingRows(i) ==
  IF i > Len(EXPENSE_CATEGORIES) THEN <<>>
  ELSE KeywordRows(EXPENSE_CATEGORIES[i].keywords, EXPENSE_CATEGORIES[i].slug)
       \o TrainingRows(i + 1)

\* _create_default_model: the pipeline fitted on the keyword rows
CreateDefaultModel ==
  LET rows == TrainingRows(1)
  IN  IF rows # <<>>
      THEN [vec |-> 0, clf |-> 0, classes |-> {rows[i].y : i \in 1..Len(rows)}]
      ELSE [vec |-> Unfitted, clf |-> Unfitted, classes |-> {}]

\* as Dump, but the classifier step is pickled as it was constructed
DumpUnfittedClassifier(m) == <<m.vec, [clf |-> Unfitted, classes |-> {}]>>

\* pickle.dump(self.model, f): the steps of the pipeline, in order
Dump(m) == <<m.vec, [clf |-> m.clf, classes |-> m.classes]>>

\* pickle.load(f) raises unless the file holds a whole pickle
Loadable(bytes) == Len(bytes) = 2

\* pickle.load(f)
Load(bytes) ==
  [vec |-> bytes[1], clf |-> bytes[2].clf, classes |-> bytes[2].classes]

\* _load_or_create_model (lines 35-49)
LoadOrCreateModel(snap) ==
  IF snap.exists
  THEN IF Loadable(snap.bytes) THEN Load(snap.bytes) ELSE CreateDefaultModel
  ELSE CreateDefaultModel

\* numpy.unique(y): the classes of a fitted classifier, sorted
ClassesSeq(classes) == SelectSeq(SlugOrder, LAMBDA s : s \in classes)

(***************************************************************************)
(* What the fitted pipeline answers is not decided by this repository: it  *)
(* is a fixed but unknown function of the fitted parameters and the text.  *)
(* An answer is the top class and its probability; the other classes share *)
(* the rest evenly.                                                        *)
(***************************************************************************)
ProbLevels == {30, 50}              \* below and at the 0.5 threshold
PredLabels == {"education", "food", "other"}   \* the top classes explored

NoAnswer    == [top |-> "", p |-> 0]
RaiseAnswer == [top |-> "", p |-> 0 - 1]   \* predict / predict_proba raised

Levels(k) == IF k = 1 THEN {100} ELSE {q \in ProbLevels : q * k >= 100}

Tops(classes) ==
  IF classes \cap PredLabels # {} THEN classes \cap PredLabels ELSE classes

Answers(classes) ==
  {[top |-> l, p |-> q] : l \in Tops(classes), q \in Levels(Cardinality(classes))}

\* predict_proba(...)[0] for an answer, over the sorted classes
ProbaVector(cls, a) ==
  [i \in 1..Len(cls) |->
     IF cls[i] = a.top THEN a.p ELSE (100 - a.p) \div (Len(cls) - 1)]

\* np.argsort(probabilities)[::-1]: indices by descending probability; the
\* ascending sort is stable, so equal probabilities come out highest index
\* first
RECURSIVE ArgsortDesc(_, _)
ArgsortDesc(probs, left) ==
  IF left = {} THEN <<>>
  ELSE LET i == CHOOSE j \in left :
                  \A k \in left : probs[j] > probs[k]
                                  \/ (probs[j] = probs[k] /\ j >= k)
       IN  <<i>> \o ArgsortDesc(probs, left \ {i})

Take(s, n) == SubSeq(s, 1, Min(n, Len(s)))

(***************************************************************************)
(* Inputs.                                                                 *)
(***************************************************************************)
Walmart  == <<"w","a","l","m","a","r","t">>
UberRide == <<"U","b","e","r"," ","R","i","d","e">>
Xyz      == <<"x","y","z">>
Store    == <<"S","t","o","r","e">>
Shell    == <<"S","h","e","l","l">>
Gas      == <<"g","a","s">>

\* the (text, merchant, description) triples passed to classify
ClassifyInputs ==
  << [text |-> Walmart,  merchant |-> None,  description |-> None],
     [text |-> UberRide, merchant |-> None,  description |-> None],
     [text |-> Store,    merchant |-> Shell, description |-> Gas],
     [text |-> <<>>,     merchant |-> None,  description |-> Xyz] >>

\* the texts passed to get_category_suggestions
SuggestInputs == <<Xyz, UberRide>>

\* line 100-101 of classify
CombinedText(in) ==
  Lower(JoinSpace(FilterNone(<<in.text, in.merchant, in.description>>)))

\* lines 100-101 and 104 of classify, for each input
ClassifyText == [i \in 1..Len(ClassifyInputs) |-> CombinedText(ClassifyInputs[i])]
RuleStage    == [i \in 1..Len(ClassifyInputs) |-> ClassifyByRules(ClassifyText[i])]

\* lines 227 and 248 of get_category_suggestions, for each input
SuggestText      == [i \in 1..Len(SuggestInputs) |-> Lower(SuggestInputs[i])]
SuggestRuleStage == [i \in 1..Len(SuggestInputs) |-> ClassifyByRules(SuggestText[i])]

\* the texts the pipeline can be asked about
Texts ==
  {CombinedText(ClassifyInputs[i]) : i \in 1..Len(ClassifyInputs)}
  \cup {Lower(SuggestInputs[i]) : i \in 1..Len(SuggestInputs)}

(***************************************************************************)
(* State.                                                                  *)
(***************************************************************************)
VARIABLES
  model,     \* expense_classifier.model: the stages of the pipeline
  snapshot,  \* the file at settings.classifier_model_path
  nextId,    \* the name the next training that reaches the fit will get
  memo,      \* answers already given by the stages still in use
  tr,        \* per thread calling train_with_user_data / save_model
  rd,        \* per thread calling classify / get_category_suggestions
  watch,     \* a finished classify call kept for comparison
  upload,    \* the upload_receipt request in progress
  expenses,  \* the user's rows of the expenses table, as detect_anomalies
             \* reads them
  detect,    \* the detect_anomalies call in progress
  frame,     \* the DataFrame of expenses handed to the prediction service
  predictor, \* prediction_service.model
  epm,       \* an ExpensePredictorModel
  fc         \* per thread calling the prediction service or the model

classifierVars == <<model, snapshot, nextId, memo, tr, rd, watch>>
parserVars     == <<upload>>
analyticsVars  == <<expenses, detect>>
forecastVars   == <<frame, predictor, epm, fc>>

vars == <<model, snapshot, nextId, memo, tr, rd, watch, upload, expenses,
          detect, frame, predictor, epm, fc>>

NoRule == [category |-> "", confidence |-> 0]

IdleTrainer ==
  [pc |-> "idle", n |-> 0, usable |-> 0, classes |-> {}, id |-> 0,
   outcome |-> "none", raised |-> FALSE]

IdleReader ==
  [pc |-> "idle", op |-> "none", arg |-> 0, text |-> <<>>, rule |-> NoRule,
   topn |-> 0, vec |-> Unfitted, label |-> "", labelVer |-> <<>>,
   answer |-> NoAnswer, probaVer |-> <<>>, probs |-> <<>>,
   result |-> <<>>, ml |-> FALSE, mlRaised |-> FALSE, raised |-> FALSE,
   clean |-> TRUE]

NoWatch == [arg |-> 0, result |-> <<>>]

NoFile == [exists |-> FALSE, bytes |-> <<>>]

NoParsed ==
  [date |-> NoDate, merchant |-> None, total |-> NoAmount, items |-> <<>>,
   payment_method |-> "None", raw_text |-> <<>>]

IdleUpload ==
  [pc |-> "idle", text |-> <<>>, parsed_data |-> NoParsed,
   valid |-> FALSE, warned |-> FALSE, call |-> "none",
   category |-> "", classification_confidence |-> 0,
   parsing_confidence |-> FZero]

IdleDetect ==
  [pc |-> "idle", threshold |-> FZero, mean |-> FZero, std |-> FZero,
   result |-> <<>>]

NoResult == [success |-> FALSE, error |-> "none", predictions |-> <<>>]

\* a thread's call of predict_future_expenses, predict_by_category or
\* ExpensePredictorModel.predict_future.  fit tells whether the call in
\* progress has fitted the model; results are the entries of
\* predict_by_category's dict, in order.
IdleForecast ==
  [pc |-> "idle", op |-> "none", periods |-> 0, category |-> "None",
   y |-> <<>>, predictions |-> <<>>, fit |-> FALSE,
   result |-> NoResult, todo |-> <<>>, results |-> <<>>, raised |-> FALSE]

\* ExpensePredictorModel.__init__ (lines 25-27)
NewPredictorModel == [is_fitted |-> FALSE, line |-> Unfit]

\* the services other than the classifier, at rest
ParserIdle    == upload = IdleUpload
AnalyticsIdle == expenses = <<>> /\ detect = IdleDetect
ForecastIdle  ==
  /\ frame = <<>> /\ predictor = Unfit /\ epm = NewPredictorModel
  /\ fc = [f \in {"f1"} |-> IdleForecast]

\* the module-level ExpenseClassifier() (line 253) with the file absent or
\* left unreadable by an earlier process
Init ==
  /\ snapshot \in {NoFile, [exists |-> TRUE, bytes |-> <<>>]}
  /\ model = LoadOrCreateModel(snapshot)
  /\ nextId = 1
  /\ memo = {}
  /\ tr = [t \in {"t1"} |-> IdleTrainer]
  /\ rd = [r \in {"r1"} |-> IdleReader]
  /\ watch = NoWatch
  /\ ParserIdle /\ AnalyticsIdle /\ ForecastIdle

(***************************************************************************)
(* The answers of the pipeline in place.                                   *)
(***************************************************************************)
\* the answers on record for features of vectorizer v given to the
\* classifier now in place
Known(v, text) == {e \in memo : e.vec = v /\ e.text = text}

\* what the pipeline can answer for a text when its features come from
\* vectorizer v and the classifier is the current one: what it answered
\* before for the same stages; else an answer of the fitted pipeline when
\* both stages are of one training, and anything or an exception (feature
\* count mismatch) when they are not
PipelineAnswers(v, text) ==
  IF Known(v, text) # {} THEN {e.answer : e \in Known(v, text)}
  ELSE IF v = model.clf THEN Answers(model.classes)
  ELSE Answers(model.classes) \cup {RaiseAnswer}

\* the vectorizer versions that can still reach the classifier: the one in
\* place and those whose features a call in flight holds
LiveVectorizers(m, readers) ==
  {m.vec} \cup {readers[r].vec : r \in {q \in DOMAIN readers :
                     readers[q].pc \in {"predict_clf", "proba_clf", "sug_clf"}}}

Forget(mem, m, readers) == {e \in mem : e.vec \in LiveVectorizers(m, readers)}

Remember(v, text, a) == memo \cup {[vec |-> v, text |-> text, answer |-> a]}

(***************************************************************************)
(* train_with_user_data and save_model.                                    *)
(***************************************************************************)
MinSamples == 10

\* a fit step ran: calls in flight no longer ran against one model
Disturb(readers) ==
  [r \in DOMAIN readers |->
     IF readers[r].pc = "idle" THEN readers[r]
     ELSE [readers[r] EXCEPT !.clean = FALSE]]

\* as EnoughSamples, without the second check (line 189)
EnoughSamplesTotalOnly(n, usable) == ~(n = 0 \/ n < MinSamples)

\* lines 171-189: the size checks go through to the fit
EnoughSamples(n, usable) ==
  /\ ~(n = 0 \/ n < MinSamples)
  /\ usable >= MinSamples

\* the lists passed to train_with_user_data: some samples without text,
\* some labelled food (none, one short of the minimum, and more), some
\* labelled other
BlankCounts == {0, 1}
FoodCounts  == {0} \cup ((MinSamples - 1)..MaxFood)
OtherCounts == {0, 1}

\* train_with_user_data up to the fit (lines 171-189), for a list with
\* nb samples of blank text, nf labelled food and no labelled other
TrainCall(t, nb, nf, no) ==
  /\ tr[t].pc = "idle"
  /\ nextId <= MaxTrain * Cardinality(DOMAIN tr)
  /\ LET n       == nb + nf + no
         usable  == nf + no
         classes == (IF nf > 0 THEN {"food"} ELSE {})
                    \cup (IF no > 0 THEN {"other"} ELSE {})
         call    == [IdleTrainer EXCEPT !.n = n, !.usable = usable]
     IN  IF EnoughSamples(n, usable)
         THEN /\ tr' = [tr EXCEPT ![t] = [call EXCEPT !.pc = "fit_vec",
                                                      !.classes = classes,
                                                      !.id = nextId]]
              /\ nextId' = nextId + 1
         ELSE /\ tr' = [tr EXCEPT ![t] = [call EXCEPT !.pc = "returned",
                                                      !.outcome = "insufficient"]]
              /\ nextId' = nextId
  /\ UNCHANGED <<model, snapshot, memo, rd, watch>>

\* self.model.fit (line 192), first stage: the vectorizer is refitted in
\* place; if it raises, line 198 logs and the call returns
FitVectorizer(t) ==
  /\ tr[t].pc = "fit_vec"
  /\ \/ /\ model' = [model EXCEPT !.vec = tr[t].id]
        /\ tr' = [tr EXCEPT ![t].pc = "fit_clf", ![t].n = 0, ![t].usable = 0]
     \/ /\ model' \in {model, [model EXCEPT !.vec = Unfitted]}
        /\ tr' = [tr EXCEPT ![t].pc = "returned", ![t].outcome = "fit_failed",
                            ![t].n = 0, ![t].usable = 0]
  /\ rd' = Disturb(rd)
  /\ memo' = Forget(memo, model', rd')
  /\ watch' = NoWatch
  /\ UNCHANGED <<snapshot, nextId>>

\* self.model.fit (line 192), last stage: the classifier is refitted in
\* place on the new features
FitClassifier(t) ==
  /\ tr[t].pc = "fit_clf"
  /\ \/ /\ model' = [model EXCEPT !.clf = tr[t].id, !.classes = tr[t].classes]
        /\ memo' = {}
        /\ tr' = [tr EXCEPT ![t].pc = "save"]
     \/ /\ model' = model
        /\ memo' = memo
        /\ tr' = [tr EXCEPT ![t].pc = "returned", ![t].outcome = "fit_failed"]
  /\ rd' = Disturb(rd)
  /\ watch' = NoWatch
  /\ UNCHANGED <<snapshot, nextId>>

\* the files save_model (lines 201-214) can leave: the whole pickle, the
\* old file when mkdir or open raised, a cut pickle when dump raised
Written(m, old) ==
  {[file |-> [exists |-> TRUE, bytes |-> Dump(m)], ok |-> TRUE],
   [file |-> old, ok |-> FALSE]}
  \cup {[file |-> [exists |-> TRUE, bytes |-> SubSeq(Dump(m), 1, j)], ok |-> FALSE] :
          j \in 0..(Len(Dump(m)) - 1)}

\* as SaveModel, but a failed write puts back the model the file holds
SaveModelRollback(t) ==
  /\ tr[t].pc = "save"
  /\ \E w \in Written(model, snapshot) :
       /\ snapshot' = w.file
       /\ model' = IF w.ok THEN model ELSE LoadOrCreateModel(snapshot)
       /\ tr' = [tr EXCEPT ![t].pc = "returned",
                           ![t].outcome = IF w.ok THEN "saved" ELSE "save_failed"]
  /\ UNCHANGED <<nextId, memo, rd, watch>>

\* save_model called from line 195; its exceptions are logged at line 214
SaveModel(t) ==
  /\ tr[t].pc = "save"
  /\ \E w \in Written(model, snapshot) :
       /\ snapshot' = w.file
       /\ tr' = [tr EXCEPT ![t].pc = "returned",
                           ![t].outcome = IF w.ok THEN "saved" ELSE "save_failed"]
  /\ UNCHANGED <<model, nextId, memo, rd, watch>>

\* save_model called on its own (tests/test_classifier.py line 131)
SaveModelCall(t) ==
  /\ tr[t].pc = "idle"
  /\ \E w \in Written(model, snapshot) : snapshot' = w.file
  /\ UNCHANGED <<model, nextId, memo, tr, rd, watch>>

\* train_with_user_data returns
TrainReturn(t) ==
  /\ tr[t].pc = "returned"
  /\ tr' = [tr EXCEPT ![t] = IdleTrainer]
  /\ UNCHANGED <<model, snapshot, nextId, memo, rd, watch>>

(***************************************************************************)
(* classify.                                                               *)
(***************************************************************************)
\* as HighConfidence, with the threshold at 0.9
HighConfidenceAbove90(rule) == rule.confidence > 90

\* line 105
HighConfidence(rule) == rule.confidence > 80

\* lines 122 and 125
Fallback(rule) ==
  IF rule.confidence > 0 THEN rule
  ELSE [category |-> "others", confidence |-> 30]

\* as Arbitrate, with the comparison not strict
ArbitrateAtMost(rule, prediction, confidence) ==
  IF confidence <= 50 /\ rule.confidence > 0 THEN rule
  ELSE [category |-> prediction, confidence |-> confidence]

\* lines 116-119
Arbitrate(rule, prediction, confidence) ==
  IF confidence < 50 /\ rule.confidence > 0 THEN rule
  ELSE [category |-> prediction, confidence |-> confidence]

\* classify up to the first use of the model (lines 100-109)
ClassifyCall(r, i) ==
  /\ rd[r].pc = "idle"
  /\ LET text == ClassifyText[i]
         rule == RuleStage[i]
         call == [IdleReader EXCEPT !.op = "classify", !.arg = i,
                                    !.text = text, !.rule = rule]
     IN  IF HighConfidence(rule)
         THEN rd' = [rd EXCEPT ![r] = [call EXCEPT !.pc = "returned",
                                                   !.result = <<rule>>]]
         ELSE rd' = [rd EXCEPT ![r] = [call EXCEPT !.pc = "predict_tf"]]
  /\ UNCHANGED <<model, snapshot, nextId, memo, tr, watch>>

\* a reader's call ends in the except branch of classify (lines 120-122)
Caught(r) ==
  [rd[r] EXCEPT !.pc = "returned", !.mlRaised = TRUE,
                !.result = <<Fallback(rd[r].rule)>>]

\* self.model.predict (line 111): the vectorizer stage
PredictTransform(r) ==
  /\ rd[r].pc = "predict_tf"
  /\ IF model.vec = Unfitted
     THEN rd' = [rd EXCEPT ![r] = [Caught(r) EXCEPT !.ml = TRUE]]
     ELSE rd' = [rd EXCEPT ![r].pc = "predict_clf", ![r].ml = TRUE,
                           ![r].vec = model.vec]
  /\ UNCHANGED <<model, snapshot, nextId, memo, tr, watch>>

\* self.model.predict (line 111): the classifier stage
PredictClassify(r) ==
  /\ rd[r].pc = "predict_clf"
  /\ \E a \in PipelineAnswers(rd[r].vec, rd[r].text) :
       /\ IF a = RaiseAnswer
          THEN rd' = [rd EXCEPT ![r] = Caught(r)]
          ELSE rd' = [rd EXCEPT ![r].pc = "proba_tf", ![r].label = a.top,
                                ![r].labelVer = <<rd[r].vec, model.clf>>]
       /\ memo' = Forget(Remember(rd[r].vec, rd[r].text, a), model, rd')
  /\ UNCHANGED <<model, snapshot, nextId, tr, watch>>

\* self.model.predict_proba (line 112): the vectorizer stage
ProbaTransform(r) ==
  /\ rd[r].pc = "proba_tf"
  /\ IF model.vec = Unfitted
     THEN rd' = [rd EXCEPT ![r] = Caught(r)]
     ELSE rd' = [rd EXCEPT ![r].pc = "proba_clf", ![r].vec = model.vec]
  /\ UNCHANGED <<model, snapshot, nextId, memo, tr, watch>>

\* self.model.predict_proba (line 112): the classifier stage, then the
\* arbitration (lines 113-119)
ProbaClassify(r) ==
  /\ rd[r].pc = "proba_clf"
  /\ \E a \in PipelineAnswers(rd[r].vec, rd[r].text) :
       /\ IF a = RaiseAnswer
          THEN rd' = [rd EXCEPT ![r] = Caught(r)]
          ELSE rd' = [rd EXCEPT ![r].pc = "returned", ![r].answer = a,
                                ![r].probaVer = <<rd[r].vec, model.clf>>,
                                ![r].result =
                                   <<Arbitrate(rd[r].rule, rd[r].label, a.p)>>]
       /\ memo' = Forget(Remember(rd[r].vec, rd[r].text, a), model, rd')
  /\ UNCHANGED <<model, snapshot, nextId, tr, watch>>

(***************************************************************************)
(* get_category_suggestions.                                               *)
(***************************************************************************)
\* as SuggestCall, but the model is saved on every call
SuggestCallSaving(r, i, n) ==
  /\ rd[r].pc = "idle"
  /\ rd' = [rd EXCEPT ![r] = [IdleReader EXCEPT !.op = "suggest", !.arg = i,
                                 !.text = SuggestText[i],
                                 !.topn = n, !.pc = "sug_tf"]]
  /\ snapshot' = [exists |-> TRUE, bytes |-> Dump(model)]
  /\ UNCHANGED <<model, nextId, memo, tr, watch>>

\* lines 227-230
SuggestCall(r, i, n) ==
  /\ rd[r].pc = "idle"
  /\ rd' = [rd EXCEPT ![r] = [IdleReader EXCEPT !.op = "suggest", !.arg = i,
                                 !.text = SuggestText[i],
                                 !.topn = n, !.pc = "sug_tf"]]
  /\ UNCHANGED <<model, snapshot, nextId, memo, tr, watch>>

\* lines 244-249: the exception is logged and the rule stage answers
SuggestCaught(r) ==
  [rd[r] EXCEPT !.pc = "returned", !.mlRaised = TRUE,
                !.result = <<SuggestRuleStage[rd[r].arg]>>]

\* self.model.predict_proba (line 232): the vectorizer stage
SuggestTransform(r) ==
  /\ rd[r].pc = "sug_tf"
  /\ IF model.vec = Unfitted
     THEN rd' = [rd EXCEPT ![r] = [SuggestCaught(r) EXCEPT !.ml = TRUE]]
     ELSE rd' = [rd EXCEPT ![r].pc = "sug_clf", ![r].ml = TRUE,
                           ![r].vec = model.vec]
  /\ UNCHANGED <<model, snapshot, nextId, memo, tr, watch>>

\* self.model.predict_proba (line 232): the classifier stage
SuggestProba(r) ==
  /\ rd[r].pc = "sug_clf"
  /\ \E a \in PipelineAnswers(rd[r].vec, rd[r].text) :
       /\ IF a = RaiseAnswer
          THEN rd' = [rd EXCEPT ![r] = SuggestCaught(r)]
          ELSE rd' = [rd EXCEPT ![r].pc = "sug_classes", ![r].answer = a,
                                ![r].probaVer = <<rd[r].vec, model.clf>>,
                                ![r].probs = ProbaVector(ClassesSeq(model.classes), a)]
       /\ memo' = Forget(Remember(rd[r].vec, rd[r].text, a), model, rd')
  /\ UNCHANGED <<model, snapshot, nextId, tr, watch>>

\* lines 233-243: classes_ is read from the classifier now in place; an
\* index past its end raises inside the try
SuggestClasses(r) ==
  /\ rd[r].pc = "sug_classes"
  /\ LET classes == ClassesSeq(model.classes)
         probs   == rd[r].probs
         indices == Take(ArgsortDesc(probs, 1..Len(probs)), rd[r].topn)
     IN  IF \E k \in 1..Len(indices) : indices[k] > Len(classes)
         THEN rd' = [rd EXCEPT ![r] = SuggestCaught(r)]
         ELSE rd' = [rd EXCEPT ![r].pc = "returned",
                       ![r].labelVer = <<rd[r].vec, model.clf>>,
                       ![r].result =
                          [k \in 1..Len(indices) |->
                             [category   |-> classes[indices[k]],
                              confidence |-> probs[indices[k]]]]]
  /\ UNCHANGED <<model, snapshot, nextId, memo, tr, watch>>

\* classify or get_category_suggestions returns to its caller
ReaderReturn(r) ==
  /\ rd[r].pc = "returned"
  /\ rd' = [rd EXCEPT ![r] = IdleReader]
  /\ \/ watch' = watch
     \/ /\ rd[r].op = "classify" /\ rd[r].clean /\ watch = NoWatch
        /\ watch' = [arg |-> rd[r].arg, result |-> rd[r].result]
  /\ UNCHANGED <<model, snapshot, nextId, memo, tr>>

(***************************************************************************)
(* The process ends and a new one imports the module (line 253).           *)
(***************************************************************************)
Restart ==
  /\ model' = LoadOrCreateModel(snapshot)
  /\ memo' = {}
  /\ tr' = [t \in DOMAIN tr |-> IdleTrainer]
  /\ rd' = [r \in DOMAIN rd |-> IdleReader]
  /\ watch' = NoWatch
  /\ UNCHANGED <<snapshot, nextId>>

\* the variables of the other services
otherVars == <<upload, expenses, detect, frame, predictor, epm, fc>>

\* a step of classify or get_category_suggestions in thread r
ReaderStep(r) ==
  \/ \E i \in 1..Len(ClassifyInputs) : ClassifyCall(r, i)
  \/ PredictTransform(r)
  \/ PredictClassify(r)
  \/ ProbaTransform(r)
  \/ ProbaClassify(r)
  \/ \E i \in 1..Len(SuggestInputs), n \in 1..MaxTopN : SuggestCall(r, i, n)
  \/ SuggestTransform(r)
  \/ SuggestProba(r)
  \/ SuggestClasses(r)
  \/ ReaderReturn(r)

Next ==
  \/ \E t \in DOMAIN tr, nb \in BlankCounts, nf \in FoodCounts, no \in OtherCounts :
       TrainCall(t, nb, nf, no) /\ UNCHANGED otherVars
  \/ \E t \in DOMAIN tr : FitVectorizer(t) /\ UNCHANGED otherVars
  \/ \E t \in DOMAIN tr : FitClassifier(t) /\ UNCHANGED otherVars
  \/ \E t \in DOMAIN tr : SaveModel(t) /\ UNCHANGED otherVars
  \/ \E t \in DOMAIN tr : SaveModelCall(t) /\ UNCHANGED otherVars
  \/ \E t \in DOMAIN tr : TrainReturn(t) /\ UNCHANGED otherVars
  \/ \E r \in DOMAIN rd, i \in 1..Len(ClassifyInputs) :
       ClassifyCall(r, i) /\ UNCHANGED otherVars
  \/ \E r \in DOMAIN rd : PredictTransform(r) /\ UNCHANGED otherVars
  \/ \E r \in DOMAIN rd : PredictClassify(r) /\ UNCHANGED otherVars
  \/ \E r \in DOMAIN rd : ProbaTransform(r) /\ UNCHANGED otherVars
  \/ \E r \in DOMAIN rd : ProbaClassify(r) /\ UNCHANGED otherVars
  \/ \E r \in DOMAIN rd, i \in 1..Len(SuggestInputs), n \in 1..MaxTopN :
       SuggestCall(r, i, n) /\ UNCHANGED otherVars
  \/ \E r \in DOMAIN rd : SuggestTransform(r) /\ UNCHANGED otherVars
  \/ \E r \in DOMAIN rd : SuggestProba(r) /\ UNCHANGED otherVars
  \/ \E r \in DOMAIN rd : SuggestClasses(r) /\ UNCHANGED otherVars
  \/ \E r \in DOMAIN rd : ReaderReturn(r) /\ UNCHANGED otherVars
  \/ Restart /\ UNCHANGED otherVars

Spec == Init /\ [][Next]_vars
(***************************************************************************)
(* api/routes/upload.py: upload_receipt, from the OCR text on.             *)
(***************************************************************************)
\* the lines receipts are made of
ReceiptLines ==
  << <<"W","A","L","M","A","R","T">>, <<"S","u","b","t","o","t","a","l",":"," ","1","0",".","0","0">>, <<"T","o","t","a","l",":"," ","1","2",".","5","0">>, <<"9","9",",","9","9"," ","€">>,
     <<"1","2","/","0","3","/","2","0","2","4">>, <<"T","o","t","a","l",":"," ","0",".","0","0">>, <<"M","I","L","K"," ","2",".","5","0">>, <<"a","b">> >>

\* '\n'.join(lines)
RECURSIVE JoinLines(_)
JoinLines(lines) ==
  IF lines = <<>> THEN <<>>
  ELSE IF Len(lines) = 1 THEN lines[1]
  ELSE lines[1] \o <<"\n">> \o JoinLines(Tail(lines))

\* the receipts of n lines
RECURSIVE LineChoices(_)
LineChoices(n) ==
  IF n = 0 THEN {<<>>}
  ELSE {<<l>> \o rest : l \in 1..Len(ReceiptLines), rest \in LineChoices(n - 1)}

\* the receipt of the end-to-end scenario
ScenarioText ==
  JoinLines(<< <<"W","A","L","M","A","R","T">>, <<"1","2","3"," ","M","A","I","N"," ","S","T">>, <<"M","I","L","K"," ","2",".","5","0">>, <<"B","R","E","A","D"," ","3",".","0","0">>,
               <<"T","o","t","a","l",":"," ","5",".","5","0","$">> >>)

\* ocr_result["full_text"]: the scenario, and every receipt of up to
\* MaxLines lines (the empty text included)
ReceiptTexts ==
  {ScenarioText} \cup
  {JoinLines([i \in 1..Len(c) |-> ReceiptLines[c[i]]]) :
     c \in UNION {LineChoices(n) : n \in 0..MaxLines}}

\* dateutil's possible answers for the strings a text can hand to it
ParseAnswers(text) == [DateCandidates(text) -> ParseOutcomes]

\* lines 84-85: parse_receipt on the OCR text
UploadReceipt(text, parse) ==
  /\ upload.pc = "idle"
  /\ upload' = [IdleUpload EXCEPT !.pc = "parsed", !.text = text,
                                  !.parsed_data = parse_receipt(text, parse)]
  /\ UNCHANGED <<classifierVars, analyticsVars, forecastVars>>

\* lines 87-92: an invalid record ends the request with HTTP 400
ValidateParsed ==
  /\ upload.pc = "parsed"
  /\ LET v == validate_parsed_data(upload.parsed_data, Today)
     IN  upload' = [upload EXCEPT !.pc = IF v.valid THEN "valid" ELSE "rejected",
                                  !.valid = v.valid, !.warned = v.warned]
  /\ UNCHANGED <<classifierVars, analyticsVars, forecastVars>>

\* " ".join(item["description"] for item in items)
ItemDescriptions(items) ==
  JoinSpace([i \in 1..Len(items) |-> items[i].description])

\* the arguments of classify: as upload_receipt passes them (lines 95-99),
\* or the merchant alone
ClassifyArguments(parsed, call) ==
  IF call = "route"
  THEN [text |-> parsed.merchant, merchant |-> parsed.merchant,
        description |-> ItemDescriptions(parsed.items)]
  ELSE [text |-> <<>>, merchant |-> parsed.merchant, description |-> None]

\* expense_classifier.classify for the parsed record, in a process where
\* nobody retrains
ClassifyParsed(call) ==
  /\ upload.pc = "valid"
  /\ LET text == CombinedText(ClassifyArguments(upload.parsed_data, call))
         rule == ClassifyByRules(text)
     IN  IF HighConfidence(rule)
         THEN /\ upload' = [upload EXCEPT !.pc = "classified", !.call = call,
                               !.category = rule.category,
                               !.classification_confidence = rule.confidence]
              /\ memo' = memo
         ELSE \E a \in PipelineAnswers(model.vec, text) :
                LET r == IF a = RaiseAnswer THEN Fallback(rule)
                         ELSE Arbitrate(rule, a.top, a.p)
                IN  /\ upload' = [upload EXCEPT !.pc = "classified",
                                     !.call = call, !.category = r.category,
                                     !.classification_confidence = r.confidence]
                    /\ memo' = Remember(model.vec, text, a)
  /\ UNCHANGED <<model, snapshot, nextId, tr, rd, watch, analyticsVars,
                 forecastVars>>

\* line 107, and the response
ParsingConfidence ==
  /\ upload.pc = "classified"
  /\ upload' = [upload EXCEPT !.pc = "done",
                  !.parsing_confidence = calculate_confidence(upload.parsed_data)]
  /\ UNCHANGED <<classifierVars, analyticsVars, forecastVars>>

InitParser ==
  /\ snapshot = NoFile
  /\ model = LoadOrCreateModel(snapshot)
  /\ nextId = 1
  /\ memo = {}
  /\ tr = [t \in {"t1"} |-> IdleTrainer]
  /\ rd = [r \in {"r1"} |-> IdleReader]
  /\ watch = NoWatch
  /\ ParserIdle /\ AnalyticsIdle /\ ForecastIdle

NextParser ==
  \/ \E text \in ReceiptTexts : \E parse \in ParseAnswers(text) :
       UploadReceipt(text, parse)
  \/ ValidateParsed
  \/ \E call \in {"route", "merchant"} : ClassifyParsed(call)
  \/ ParsingConfidence

SpecParser == InitParser /\ [][NextParser]_vars

(***************************************************************************)
(* detect_anomalies on the user's rows of the expenses table.              *)
(***************************************************************************)
\* an amount of c hundredths as the Float column holds it
Amount(c) == FDec(c, 100)

\* the rows for a list of amounts in hundredths, ids in row order
Rows(cents) == [i \in 1..Len(cents) |-> [id |-> i, amount |-> Amount(cents[i])]]

\* n expenses of c hundredths each
Uniform(n, c) == [i \in 1..n |-> c]

\* n expenses of c hundredths, but 100 * c at position k
WithOutlier(n, c, k) == [i \in 1..n |-> IF i = k THEN 100 * c ELSE c]

\* n expenses, c and 3 * c hundredths in turn
Alternating(n, c) == [i \in 1..n |-> IF i % 2 = 1 THEN c ELSE 3 * c]

SmallSizes == {MinAnomalyData - 1, MinAnomalyData, MinAnomalyData + 1}
BaseCents  == {1, 3, 5}

\* the tables explored: around the minimum size, all amounts equal or all
\* but the first or the last; and one larger than the result limit
ExpenseTables ==
  {Rows(Uniform(n, c)) : n \in SmallSizes, c \in BaseCents}
  \cup {Rows(WithOutlier(n, c, 1)) : n \in SmallSizes, c \in BaseCents}
  \cup {Rows(WithOutlier(n, c, n)) : n \in SmallSizes, c \in BaseCents}
  \cup {Rows(Alternating(MaxExpenses, 1))}

\* the thresholds passed: the default, and 2.0, 1.0, 0.5
Thresholds == {DefaultThreshold, FInt(2), FInt(1), FDec(1, 2)}

\* AnalyticsService.detect_anomalies(db, user_id, threshold)
DetectAnomalies(threshold) ==
  /\ detect.pc = "idle"
  /\ LET d == detect_anomalies(expenses, threshold)
     IN  detect' = [pc |-> "returned", threshold |-> threshold,
                    mean |-> d.mean, std |-> d.std, result |-> d.result]
  /\ UNCHANGED <<classifierVars, parserVars, expenses, forecastVars>>

InitAnalytics ==
  /\ snapshot = NoFile
  /\ model = LoadOrCreateModel(snapshot)
  /\ nextId = 1
  /\ memo = {}
  /\ tr = [t \in {"t1"} |-> IdleTrainer]
  /\ rd = [r \in {"r1"} |-> IdleReader]
  /\ watch = NoWatch
  /\ ParserIdle /\ ForecastIdle
  /\ expenses \in ExpenseTables
  /\ detect = IdleDetect

NextAnalytics == \E threshold \in Thresholds : DetectAnomalies(threshold)

SpecAnalytics == InitAnalytics /\ [][NextAnalytics]_vars

(***************************************************************************)
(* The forecasts: predict_future_expenses and predict_by_category of the   *)
(* prediction service, and ExpensePredictorModel.                          *)
(***************************************************************************)
\* n rows of one month, amount and category
Block(n, month, amount, category) ==
  [i \in 1..n |-> [month |-> month, amount |-> amount, category |-> category]]

\* the DataFrames explored, of MinDataPoints rows unless said otherwise:
\* monthly totals falling steeply, rising, one row short of the minimum,
\* a single housing row among food rows, one month only, and a month
\* without expenses between two others
ExpenseFrames ==
  { Block(MinDataPoints - 10, 1, 2, "food") \o Block(9, 2, 1, "food")
      \o Block(1, 3, 1, "food"),
    Block(1, 1, 1, "food") \o Block(9, 2, 1, "food")
      \o Block(MinDataPoints - 10, 3, 2, "food"),
    Block(MinDataPoints - 1, 1, 1, "food"),
    Block(MinDataPoints - 10, 1, 2, "food") \o Block(1, 2, 5, "housing")
      \o Block(9, 3, 1, "food"),
    Block(MinDataPoints, 1, 1, "food"),
    Block(MinDataPoints - 15, 1, 1, "food") \o Block(15, 3, 2, "food") }

\* the category arguments: none, and two slugs
ForecastCategories == {"None", "food", "housing"}

\* the dict returned at lines 68-72
Insufficient ==
  [success |-> FALSE, error |-> "Insufficient data", predictions |-> <<>>]

\* the dict returned by the except branch (lines 132-138)
Failed(message) == [success |-> FALSE, error |-> message, predictions |-> <<>>]

\* predict_future_expenses returns result: to its caller, or into the dict
\* of predict_by_category (line 164), whose loop goes on
Finish(call, result) ==
  IF call.op = "by_category"
  THEN [call EXCEPT !.pc = "loop",
                    !.results = Append(@, [category |-> call.category,
                                           result   |-> result,
                                           fit      |-> call.fit]),
                    !.todo = Tail(@), !.category = "None", !.y = <<>>,
                    !.predictions = <<>>, !.fit = FALSE]
  ELSE [call EXCEPT !.pc = "returned", !.result = result]

\* predict_future_expenses up to the fit (lines 65-90): the size check, the
\* category filter and the monthly totals; with no row left, fit raises
\* on the empty arrays
Enter(call, category) ==
  LET rows == IF category # "None" THEN FilterCategory(frame, category)
              ELSE frame
      y    == MonthlyData(rows)
      c    == [call EXCEPT !.category = category, !.fit = FALSE]
  IN  IF Len(frame) < MinDataPoints THEN Finish(c, Insufficient)
      ELSE IF y = <<>> THEN Finish(c, Failed("fit raised"))
      ELSE [c EXCEPT !.pc = "fit", !.y = y]

\* predict_future_expenses(expenses_data, periods, category)
ForecastCall(f, periods, category) ==
  /\ fc[f].pc = "idle"
  /\ fc' = [fc EXCEPT ![f] =
              Enter([IdleForecast EXCEPT !.op = "forecast", !.periods = periods],
                    category)]
  /\ UNCHANGED <<classifierVars, parserVars, analyticsVars, frame, predictor, epm>>

\* predict_by_category(expenses_data, periods), line 155
ByCategoryCall(f, periods) ==
  /\ fc[f].pc = "idle"
  /\ fc' = [fc EXCEPT ![f] =
              [IdleForecast EXCEPT !.op = "by_category", !.periods = periods,
                                   !.pc = "loop",
                                   !.todo = UniqueCategories(frame, {})]]
  /\ UNCHANGED <<classifierVars, parserVars, analyticsVars, frame, predictor, epm>>

\* the loop of lines 158-164: the next category, or the return
ByCategoryNext(f) ==
  /\ fc[f].pc = "loop"
  /\ fc' = [fc EXCEPT ![f] =
              IF fc[f].todo = <<>> THEN [fc[f] EXCEPT !.pc = "returned"]
              ELSE Enter(fc[f], Head(fc[f].todo))]
  /\ UNCHANGED <<classifierVars, parserVars, analyticsVars, frame, predictor, epm>>

\* self.model.fit(X, y) (line 93), on the service's one model
Fit(f) ==
  /\ fc[f].pc = "fit"
  /\ predictor' = FitLine(fc[f].y)
  /\ fc' = [fc EXCEPT ![f].pc = "predict", ![f].fit = TRUE]
  /\ UNCHANGED <<classifierVars, parserVars, analyticsVars, frame, epm>>

\* lines 96-98: the line at len(monthly_data) + 1 .. + periods
Predict(f) ==
  /\ fc[f].pc = "predict"
  /\ fc' = [fc EXCEPT ![f].pc = "residuals",
              ![f].predictions =
                 [i \in 1..fc[f].periods |->
                    PredictAt(predictor, Len(fc[f].y) + i)]]
  /\ UNCHANGED <<classifierVars, parserVars, analyticsVars, frame, predictor, epm>>

\* lines 101-130: the margin from the residuals, and the results, entry i
\* dated i months after the last bucket (lines 110 and 113)
Residuals(f) ==
  /\ fc[f].pc = "residuals"
  /\ LET margin == MarginOfError(StdError(predictor, fc[f].y))
         points == [i \in 1..fc[f].periods |->
                      ForecastPoint(Len(fc[f].y) - 1 + i, fc[f].predictions[i],
                                    margin)]
     IN  fc' = [fc EXCEPT ![f] =
                  Finish(fc[f], [success |-> TRUE, error |-> "none",
                                 predictions |-> points])]
  /\ UNCHANGED <<classifierVars, parserVars, analyticsVars, frame, predictor, epm>>

\* the caller takes the result
ForecastReturn(f) ==
  /\ fc[f].pc = "returned"
  /\ fc' = [fc EXCEPT ![f] = IdleForecast]
  /\ UNCHANGED <<classifierVars, parserVars, analyticsVars, frame, predictor, epm>>

\* ExpensePredictorModel.fit(X, y) on the arrays of prepare_data (lines 32-66)
PredictorFit ==
  /\ ~epm.is_fitted
  /\ frame # <<>>
  /\ epm' = [is_fitted |-> TRUE, line |-> FitLine(MonthlyData(frame))]
  /\ UNCHANGED <<classifierVars, parserVars, analyticsVars, frame, predictor, fc>>

\* ExpensePredictorModel.predict (lines 68-83) at x
PredictorPredict(x) == NonNegative(PredictAt(epm.line, x))

\* ExpensePredictorModel.predict_future(n_periods, last_period,
\* confidence_level)
PredictFuture(f, n_periods, last_period, confidence_level) ==
  /\ fc[f].pc = "idle"
  /\ LET call == [IdleForecast EXCEPT !.op = "predict_future",
                                      !.periods = n_periods, !.pc = "returned"]
     IN  fc' = [fc EXCEPT ![f] =
                  IF ~epm.is_fitted THEN [call EXCEPT !.raised = TRUE]
                  ELSE [call EXCEPT !.result =
                          [success |-> TRUE, error |-> "none",
                           predictions |->
                             [i \in 1..n_periods |->
                                PredictorPoint(last_period + i,
                                   PredictorPredict(last_period + i),
                                   confidence_level)]]]]
  /\ UNCHANGED <<classifierVars, parserVars, analyticsVars, frame, predictor, epm>>

\* the last known period passed to predict_future
LastPeriods == {0, 3}

\* the confidence levels passed to predict_future, in percent
ConfidenceLevels == {95, 99}

InitForecast ==
  /\ snapshot = NoFile
  /\ model = LoadOrCreateModel(snapshot)
  /\ nextId = 1
  /\ memo = {}
  /\ tr = [t \in {"t1"} |-> IdleTrainer]
  /\ rd = [r \in {"r1"} |-> IdleReader]
  /\ watch = NoWatch
  /\ ParserIdle /\ AnalyticsIdle
  /\ frame \in ExpenseFrames
  /\ predictor = Unfit
  /\ epm = NewPredictorModel
  /\ fc = [f \in {"f1"} |-> IdleForecast]

NextForecast ==
  \/ \E f \in DOMAIN fc, periods \in 1..MaxPeriods, category \in ForecastCategories :
       ForecastCall(f, periods, category)
  \/ \E f \in DOMAIN fc, periods \in 1..MaxPeriods : ByCategoryCall(f, periods)
  \/ \E f \in DOMAIN fc : ByCategoryNext(f)
  \/ \E f \in DOMAIN fc : Fit(f)
  \/ \E f \in DOMAIN fc : Predict(f)
  \/ \E f \in DOMAIN fc : Residuals(f)
  \/ \E f \in DOMAIN fc : ForecastReturn(f)
  \/ PredictorFit
  \/ \E f \in DOMAIN fc, n \in 1..MaxPeriods, last \in LastPeriods,
          level \in ConfidenceLevels :
       PredictFuture(f, n, last, level)

SpecForecast == InitForecast /\ [][NextForecast]_vars

(***************************************************************************)
(* The trend: GET /trend, detect_trend and get_trend_direction.            *)
(***************************************************************************)
\* one expense per entry of totals, in consecutive months from the first
Monthly(totals) ==
  [i \in 1..Len(totals) |-> [month |-> i, amount |-> totals[i], category |-> "food"]]

\* the monthly steps explored: around the two boundaries, and none
TrendSteps == {0 - TrendSlope - 1, 0 - TrendSlope, 0, TrendSlope, TrendSlope + 1}

\* the DataFrames explored: no expense, one month only, two and three
\* months changing by a fixed step, three months not on a line whose fitted
\* slope is beyond, at and within the boundary, and a month without
\* expenses between two others
TrendFrames ==
  {<<>>, Monthly(<<25>>), Block(2, 1, 25, "food")}
  \cup {Monthly(<<25, 25 + s>>) : s \in TrendSteps}
  \cup {Monthly(<<25, 25 + s, 25 + 2 * s>>) : s \in TrendSteps}
  \cup {Monthly(<<1, 30, 21>>), Monthly(<<1, 30, 22>>), Monthly(<<21, 2, 1>>),
        Monthly(<<5, 1, 9>>)}
  \cup {Block(1, 1, 5, "food") \o Block(1, 3, 25, "food"),
        Block(1, 1, 5, "food") \o Block(1, 3, 26, "food")}

\* a call of the trend operations returns result
TrendCall(op, y, result) ==
  [IdleForecast EXCEPT !.pc = "returned", !.op = op, !.y = y, !.result = result]

\* get_spending_trend (GET /trend): fewer than 2 expenses are answered by
\* the route (lines 175-179), else detect_trend on the DataFrame of the
\* expenses
TrendRoute(f) ==
  /\ fc[f].pc = "idle"
  /\ fc' = [fc EXCEPT ![f] =
              TrendCall("get_spending_trend", MonthlyData(frame),
                        IF Len(frame) < 2 THEN InsufficientTrend
                        ELSE detect_trend(frame, TRUE))]
  /\ UNCHANGED <<classifierVars, parserVars, analyticsVars, frame, predictor, epm>>

\* prediction_service.detect_trend(expenses_data); only a DataFrame
\* without rows can be without columns
DetectTrend(f, has_date) ==
  /\ fc[f].pc = "idle"
  /\ has_date \/ frame = <<>>
  /\ fc' = [fc EXCEPT ![f] =
              TrendCall("detect_trend", MonthlyData(frame),
                        detect_trend(frame, has_date))]
  /\ UNCHANGED <<classifierVars, parserVars, analyticsVars, frame, predictor, epm>>

\* ExpensePredictorModel.get_trend_direction()
GetTrendDirection(f) ==
  /\ fc[f].pc = "idle"
  /\ fc' = [fc EXCEPT ![f] =
              TrendCall("get_trend_direction", <<>>,
                        [trend |-> get_trend_direction(epm),
                         slope |-> Slope(epm.line)])]
  /\ UNCHANGED <<classifierVars, parserVars, analyticsVars, frame, predictor, epm>>

InitTrend ==
  /\ snapshot = NoFile
  /\ model = LoadOrCreateModel(snapshot)
  /\ nextId = 1
  /\ memo = {}
  /\ tr = [t \in {"t1"} |-> IdleTrainer]
  /\ rd = [r \in {"r1"} |-> IdleReader]
  /\ watch = NoWatch
  /\ ParserIdle /\ AnalyticsIdle
  /\ frame \in TrendFrames
  /\ predictor = Unfit
  /\ epm = NewPredictorModel
  /\ fc = [f \in {"f1"} |-> IdleForecast]

NextTrend ==
  \/ \E f \in DOMAIN fc : TrendRoute(f)
  \/ \E f \in DOMAIN fc, has_date \in BOOLEAN : DetectTrend(f, has_date)
  \/ PredictorFit
  \/ \E f \in DOMAIN fc : GetTrendDirection(f)
  \/ \E f \in DOMAIN fc : ForecastReturn(f)

SpecTrend == InitTrend /\ [][NextTrend]_vars

(***************************************************************************)
(* Two request threads on the one prediction_service: the routes are       *)
(* plain functions, which the framework runs in a pool of threads.         *)
(***************************************************************************)
MinAccuracyMonths == 3   \* routes/predictions.py line 292

\* get_model_accuracy (GET /accuracy) up to the fit (lines 266-302): the
\* monthly totals of all the user's expenses
AccuracyCall(f) ==
  /\ fc[f].pc = "idle"
  /\ frame # <<>>
  /\ fc' = [fc EXCEPT ![f] =
              IF Len(MonthlyData(frame)) < MinAccuracyMonths
              THEN [IdleForecast EXCEPT !.op = "accuracy", !.pc = "returned",
                                        !.result = Failed("Insufficient data")]
              ELSE [IdleForecast EXCEPT !.op = "accuracy", !.pc = "accuracy_fit",
                                        !.y = MonthlyData(frame)]]
  /\ UNCHANGED <<classifierVars, parserVars, analyticsVars, frame, predictor, epm>>

\* prediction_service.model.fit(X, y) of line 305, on the service's one
\* model; the metrics of lines 306-322 are not represented
AccuracyFit(f) ==
  /\ fc[f].pc = "accuracy_fit"
  /\ predictor' = FitLine(fc[f].y)
  /\ fc' = [fc EXCEPT ![f].pc = "returned", ![f].fit = TRUE,
                      ![f].result = [success |-> TRUE, error |-> "none",
                                     predictions |-> <<>>]]
  /\ UNCHANGED <<classifierVars, parserVars, analyticsVars, frame, epm>>

InitForecastPair ==
  /\ snapshot = NoFile
  /\ model = LoadOrCreateModel(snapshot)
  /\ nextId = 1
  /\ memo = {}
  /\ tr = [t \in {"t1"} |-> IdleTrainer]
  /\ rd = [r \in {"r1"} |-> IdleReader]
  /\ watch = NoWatch
  /\ ParserIdle /\ AnalyticsIdle
  /\ frame \in ExpenseFrames
  /\ predictor = Unfit
  /\ epm = NewPredictorModel
  /\ fc = [f \in {"f1", "f2"} |-> IdleForecast]

NextForecastPair ==
  \/ \E f \in DOMAIN fc, periods \in 1..MaxPeriods, category \in ForecastCategories :
       ForecastCall(f, periods, category)
  \/ \E f \in DOMAIN fc : Fit(f)
  \/ \E f \in DOMAIN fc : Predict(f)
  \/ \E f \in DOMAIN fc : Residuals(f)
  \/ \E f \in DOMAIN fc : ForecastReturn(f)
  \/ \E f \in DOMAIN fc : AccuracyCall(f)
  \/ \E f \in DOMAIN fc : AccuracyFit(f)

SpecForecastPair == InitForecastPair /\ [][NextForecastPair]_vars

(***************************************************************************)
(* Two threads calling train_with_user_data on the one expense_classifier. *)
(***************************************************************************)
InitTrainPair ==
  /\ snapshot = NoFile
  /\ model = LoadOrCreateModel(snapshot)
  /\ nextId = 1
  /\ memo = {}
  /\ tr = [t \in {"t1", "t2"} |-> IdleTrainer]
  /\ rd = [r \in {"r1"} |-> IdleReader]
  /\ watch = NoWatch
  /\ ParserIdle /\ AnalyticsIdle /\ ForecastIdle

NextTrainPair ==
  \/ \E t \in DOMAIN tr, nb \in BlankCounts, nf \in FoodCounts, no \in OtherCounts :
       TrainCall(t, nb, nf, no) /\ UNCHANGED otherVars
  \/ \E t \in DOMAIN tr : FitVectorizer(t) /\ UNCHANGED otherVars
  \/ \E t \in DOMAIN tr : FitClassifier(t) /\ UNCHANGED otherVars
  \/ \E t \in DOMAIN tr : SaveModel(t) /\ UNCHANGED otherVars
  \/ \E t \in DOMAIN tr : TrainReturn(t) /\ UNCHANGED otherVars

SpecTrainPair == InitTrainPair /\ [][NextTrainPair]_vars


(***************************************************************************)
(* Properties.                                                             *)
(***************************************************************************)
Returned(r, op) == rd[r].pc = "returned" /\ rd[r].op = op

\* the stage versions a call has read so far
VersionsUsed(r) == {rd[r].labelVer, rd[r].probaVer} \ {<<>>}

\* C1: a classify or suggest call that overlaps train_with_user_data reads
\* one model only: each pipeline run uses a vectorizer and a classifier of
\* the same training, and the label and the probability come from the same
\* model version.
C1_ReadersSeeOneModel ==
  \A r \in DOMAIN rd :
    /\ \A u \in VersionsUsed(r) : u[1] = u[2]
    /\ Cardinality(VersionsUsed(r)) <= 1

\* C2: when the rule stage's confidence for the combined lower-cased text
\* is above 0.8, classify returns exactly the rule-stage result and the
\* pipeline is not used in that call.
C2_RuleShortCircuit ==
  \A r \in DOMAIN rd :
    rd[r].op = "classify" =>
      LET rule == RuleStage[rd[r].arg]
      IN  rule.confidence > 80 =>
            /\ rd[r].pc = "returned"
            /\ rd[r].result = <<rule>>
            /\ ~rd[r].ml

\* classify("walmart") has returned (food, 1.0) without using the pipeline
C2_Witness ==
  \E r \in DOMAIN rd :
    /\ Returned(r, "classify")
    /\ ClassifyInputs[rd[r].arg].text = Walmart
    /\ rd[r].result = <<[category |-> "food", confidence |-> 100]>>
    /\ ~rd[r].ml

C4_FallbackIsOther ==
  \A r \in DOMAIN rd :
    (Returned(r, "classify") /\ rd[r].mlRaised) =>
      /\ ~rd[r].raised
      /\ rd[r].result =
           IF rd[r].rule.confidence # 0
           THEN <<rd[r].rule>>
           ELSE <<[category |-> "other", confidence |-> 30]>>

\* C5: every category returned by classify or get_category_suggestions is
\* a slug of the category table, with a confidence in [0, 1].
C5_ResultsInTable ==
  \A r \in DOMAIN rd :
    rd[r].pc = "returned" =>
      \A k \in 1..Len(rd[r].result) :
        /\ rd[r].result[k].category \in Slugs
        /\ rd[r].result[k].confidence \in 0..100

\* C6: two classify calls with the same arguments and no retrain between
\* them return the same (category, confidence), whatever calls ran in
\* between; the steps of classify and get_category_suggestions leave the
\* model and the snapshot unchanged.
C6_ClassifyIdempotent ==
  /\ [](\A r \in DOMAIN rd :
          (Returned(r, "classify") /\ rd[r].clean
             /\ watch # NoWatch /\ watch.arg = rd[r].arg)
          => rd[r].result = watch.result)
  /\ [][(\E r \in DOMAIN rd : ReaderStep(r))
          => (model' = model /\ snapshot' = snapshot)]_vars

\* a second classify of a text the pipeline decides has returned, with the
\* first call's result kept and another call in between
C6_Witness ==
  \E r \in DOMAIN rd :
    /\ Returned(r, "classify") /\ rd[r].clean /\ rd[r].ml
    /\ watch # NoWatch /\ watch.arg = rd[r].arg
    /\ \E e \in memo : e.text # rd[r].text

\* C7: train_with_user_data with fewer than 10 samples, or with fewer than
\* 10 samples of non-blank text, raises nothing and leaves the model and
\* the snapshot as they were.
C7_InsufficientIsNoOp ==
  [][\A t \in DOMAIN tr :
       (tr[t].pc = "idle" /\ tr'[t].pc # "idle"
          /\ (tr'[t].n < 10 \/ tr'[t].usable < 10))
       => /\ tr'[t].pc = "returned"
          /\ ~tr'[t].raised
          /\ model' = model
          /\ snapshot' = snapshot]_vars

\* a call with 10 samples of which 9 have text has returned
C7_Witness ==
  \E t \in DOMAIN tr :
    /\ tr[t].pc = "returned"
    /\ tr[t].n >= 10 /\ tr[t].usable < 10
    /\ ~tr[t].raised

\* C8: when the snapshot write fails in a retrain that had at least 10
\* usable samples, the call raises nothing and the model in memory is the
\* newly trained one.
C8_SaveFailureKeepsModel ==
  \A t \in DOMAIN tr :
    (tr[t].pc = "returned" /\ tr[t].outcome = "save_failed") =>
      /\ ~tr[t].raised
      /\ model = [vec |-> tr[t].id, clf |-> tr[t].id, classes |-> tr[t].classes]

\* a retrain has returned after a failed write that cut the file
C8_Witness ==
  \E t \in DOMAIN tr :
    /\ tr[t].pc = "returned" /\ tr[t].outcome = "save_failed"
    /\ snapshot.exists /\ ~Loadable(snapshot.bytes)
    /\ model.clf = tr[t].id

C10_ModelAlwaysComplete ==
  (\A t \in DOMAIN tr : tr[t].pc \in {"idle", "returned"}) =>
     /\ model.vec # Unfitted
     /\ model.clf # Unfitted
     /\ model.vec = model.clf

(***************************************************************************)
(* Properties of the receipt parser.                                       *)
(***************************************************************************)
MaxIn(S) == CHOOSE m \in S : \A x \in S : x <= m

\* the amounts a primary pattern matches at any position of the text
PrimaryMatchesAnywhere(text) ==
  {m.amount : m \in {n \in {TotalPatternAt(p[1], text, p[2]) :
                              p \in TotalPatterns \X (1..Len(text))} : n.ok}}

\* the amounts the currency pattern matches at any position of the text
CurrencyMatchesAnywhere(text) ==
  {m.amount : m \in {n \in {CurrencyPatternAt(text, i) : i \in 1..Len(text)} : n.ok}}

Parsed == upload.pc # "idle"

\* C11: extract_total returns the largest amount the primary patterns match
\* anywhere in the text; the currency fallback decides only when no primary
\* pattern matches, and None is returned only when neither matches.
C11_TotalIsLargestPrimary ==
  Parsed =>
    LET primary  == PrimaryMatchesAnywhere(upload.text)
        currency == CurrencyMatchesAnywhere(upload.text)
        total    == upload.parsed_data.total
    IN  IF primary # {} THEN total = MaxIn(primary)
        ELSE IF currency # {} THEN total = MaxIn(currency)
        ELSE total = NoAmount

\* a text with 'Subtotal: 10.00' and 'Total: 12.50' was parsed, total 12.50
C11_Witness ==
  /\ Parsed
  /\ upload.text = JoinLines(<<<<"S","u","b","t","o","t","a","l",":"," ","1","0",".","0","0">>, <<"T","o","t","a","l",":"," ","1","2",".","5","0">>>>)
  /\ upload.parsed_data.total = 1250

AllFour(parsed) ==
  HasDate(parsed) /\ HasTotal(parsed) /\ HasMerchant(parsed) /\ HasItems(parsed)

\* C12: calculate_confidence is the sum of the weights of the fields found:
\* exactly 1.0 for a record with all four fields, lower by exactly the
\* field's weight (0.3 date, 0.4 total, 0.2 merchant, 0.1 items) when one
\* field is removed, and always within [0, 1].
C12_ConfidenceIsSumOfWeights ==
  upload.pc = "done" =>
    LET p == upload.parsed_data
        c == upload.parsing_confidence
        Lowered(q) == FSub(c, calculate_confidence(q))
    IN  /\ FLe(FZero, c) /\ FLe(c, FOne)
        /\ AllFour(p) =>
             /\ FEq(c, FOne)
             /\ FEq(Lowered([p EXCEPT !.date = NoDate]), DateWeight)
             /\ FEq(Lowered([p EXCEPT !.total = NoAmount]), TotalWeight)
             /\ FEq(Lowered([p EXCEPT !.merchant = None]), MerchantWeight)
             /\ FEq(Lowered([p EXCEPT !.items = <<>>]), ItemsWeight)

Validated == upload.pc \notin {"idle", "parsed"}

PositiveTotal(parsed) == HasTotal(parsed) /\ parsed.total > 0

\* C13: validate_parsed_data reports a record usable if and only if its
\* total is present and > 0; neither a future date nor a date more than 365
\* days old makes a record with a positive total unusable.
C13_UsableIffPositiveTotal ==
  Validated => (upload.valid <=> PositiveTotal(upload.parsed_data))

\* C13, amended: a record is usable if and only if its total is present and
\* > 0 and its date, if any, is not in the future; a date more than 365
\* days old never makes a record with a positive total unusable.
C13_UsableIffTotalAndNoFutureDate ==
  Validated =>
    LET p == upload.parsed_data
    IN  /\ upload.valid <=>
             (PositiveTotal(p) /\ ~(HasDate(p) /\ p.date.day > Today))
        /\ (PositiveTotal(p) /\ HasDate(p) /\ Today - p.date.day > 365)
             => upload.valid

\* a record with a positive total and a date 366 days old was accepted,
\* with the warning
C13_Witness ==
  /\ Validated
  /\ upload.parsed_data.total > 0
  /\ upload.parsed_data.date = [found |-> TRUE, day |-> Today - 366]
  /\ upload.valid /\ upload.warned

ScenarioItems ==
  << [description |-> <<"M","I","L","K">>, price |-> 250],
     [description |-> <<"B","R","E","A","D">>, price |-> 300] >>

ScenarioDone ==
  upload.pc = "done" /\ upload.text = ScenarioText /\ upload.call = "merchant"

\* C14: the five-line WALMART receipt parses to merchant WALMART, total
\* 5.50, items exactly (MILK, 2.50) and (BREAD, 3.00) and a parse
\* confidence of at least 0.9, and classifying with merchant WALMART gives
\* food with confidence above 0.7.
C14_Scenario ==
  ScenarioDone =>
    /\ upload.parsed_data.merchant = <<"W","A","L","M","A","R","T">>
    /\ upload.parsed_data.total = 550
    /\ upload.parsed_data.items = ScenarioItems
    /\ FLe(FDec(9, 10), upload.parsing_confidence)
    /\ upload.category = "food"
    /\ upload.classification_confidence > 70

\* C14, amended: the same, with a parse confidence of at least 0.7 (total,
\* merchant and items; the text has no date), the classification being
\* that of the merchant WALMART alone.
C14_ScenarioWithoutDate ==
  ScenarioDone =>
    /\ upload.parsed_data.merchant = <<"W","A","L","M","A","R","T">>
    /\ upload.parsed_data.total = 550
    /\ upload.parsed_data.items = ScenarioItems
    /\ ~HasDate(upload.parsed_data)
    /\ FLe(FDec(7, 10), upload.parsing_confidence)
    /\ upload.category = "food"
    /\ upload.classification_confidence > 70

\* the scenario ran to its response: food, by the rule stage alone
C14_Witness ==
  /\ ScenarioDone
  /\ upload.category = "food"
  /\ upload.classification_confidence = 100
  /\ memo = {}

(***************************************************************************)
(* Properties of detect_anomalies.                                         *)
(***************************************************************************)
Detected == detect.pc = "returned"

AllIdentical(rows) == \A i, j \in 1..Len(rows) : rows[i].amount = rows[j].amount

\* C15: detect_anomalies returns an empty sequence whenever the user has
\* fewer than 10 amounts or all amounts are identical, for every threshold.
C15_EmptyOnShortOrIdentical ==
  (Detected /\ (Len(expenses) < 10 \/ AllIdentical(expenses)))
    => detect.result = <<>>

\* the positions of the rows with amount a
RowsWith(rows, a) == {i \in 1..Len(rows) : rows[i].amount = a}

\* all rows but row k hold one amount x > 0 and row k holds 100 * x
OneHundredfold(rows, k) ==
  \E c \in BaseCents :
    /\ rows[k].amount = Amount(100 * c)
    /\ RowsWith(rows, Amount(c)) = (1..Len(rows)) \ {k}

\* row k heads the result
Heads(rows, k, result) ==
  /\ result # <<>>
  /\ result[1].expense_id = rows[k].id
  /\ \A j \in 1..Len(result) : FLe(result[j].z_score, result[1].z_score)

\* C16: of exactly 10 amounts, nine equal to x > 0 and one to 100 x, the
\* 100 x record is returned at the default threshold 3.0, with the highest
\* z-score of the result.
C16_HundredfoldOfTenReturned ==
  \A k \in 1..Len(expenses) :
    (Detected /\ detect.threshold = DefaultThreshold /\ Len(expenses) = 10
       /\ OneHundredfold(expenses, k))
      => Heads(expenses, k, detect.result)

\* C16, amended: of exactly 11 amounts, ten equal to x > 0 and one to
\* 100 x, the 100 x record is returned at the default threshold 3.0, with
\* the highest z-score of the result.
C16_HundredfoldOfElevenReturned ==
  \A k \in 1..Len(expenses) :
    (Detected /\ detect.threshold = DefaultThreshold /\ Len(expenses) = 11
       /\ OneHundredfold(expenses, k))
      => Heads(expenses, k, detect.result)

\* eleven amounts, the last a hundredfold: it alone was returned
C16_Witness ==
  /\ Detected /\ detect.threshold = DefaultThreshold
  /\ Len(expenses) = 11 /\ OneHundredfold(expenses, 11)
  /\ Len(detect.result) = 1
  /\ detect.result[1].expense_id = 11

\* z = |amount - mean| / stddev of row i, for the call's mean and stddev
ZOf(i) == FAbs(FDiv(FSub(expenses[i].amount, detect.mean), detect.std))

\* the rows with z strictly above the threshold
Above == {i \in 1..Len(expenses) : FLt(detect.threshold, ZOf(i))}

Returned20 == {detect.result[j].expense_id : j \in 1..Len(detect.result)}

\* C17: with at least 10 amounts and a non-zero standard deviation, the
\* result is exactly the (at most 20) records of largest z among those with
\* z strictly above the threshold, in non-increasing order of z; a record
\* with z equal to the threshold is never returned.
C17_TopTwentyAboveThreshold ==
  (Detected /\ Len(expenses) >= 10 /\ ~FEq(detect.std, FZero)) =>
    LET result == detect.result
    IN  /\ Len(result) <= 20
        /\ Len(result) = Min(20, Cardinality(Above))
        /\ Cardinality(Returned20) = Len(result)
        /\ \A j \in 1..Len(result) :
             /\ result[j].expense_id \in {expenses[i].id : i \in Above}
             /\ \E i \in Above : /\ expenses[i].id = result[j].expense_id
                                 /\ result[j].z_score = ZOf(i)
                                 /\ result[j].amount = expenses[i].amount
             /\ FLt(detect.threshold, result[j].z_score)
        /\ \A j \in 1..(Len(result) - 1) :
             FLe(result[j + 1].z_score, result[j].z_score)
        /\ \A i \in Above :
             expenses[i].id \notin Returned20 =>
               \A j \in 1..Len(result) : FLe(ZOf(i), result[j].z_score)

\* 21 amounts all above the threshold, 20 of them returned
C17_Witness ==
  /\ Detected
  /\ Cardinality(Above) > 20
  /\ Len(detect.result) = 20

\* a returned call in which some record's z equals the threshold
C17_AtThreshold ==
  /\ Detected /\ Len(expenses) >= 10 /\ ~FEq(detect.std, FZero)
  /\ \E i \in 1..Len(expenses) : FEq(ZOf(i), detect.threshold)

(***************************************************************************)
(* Properties of the forecasts.                                            *)
(***************************************************************************)
\* the results handed back so far by the calls in progress or returned
ResultsOf(f) ==
  (IF fc[f].pc = "returned" /\ fc[f].op # "by_category"
   THEN {fc[f].result} ELSE {})
  \cup {fc[f].results[i].result : i \in 1..Len(fc[f].results)}

\* every forecast point returned
ForecastPoints ==
  UNION {{r.predictions[i] : i \in 1..Len(r.predictions)} :
           r \in UNION {ResultsOf(f) : f \in DOMAIN fc}}

\* C18: every forecast point returned has predicted_amount >= 0 and
\* lower_bound >= 0, also where the fitted line is below zero for the
\* forecast month.
C18_ForecastNonNegative ==
  \A p \in ForecastPoints :
    /\ FracLe(FracZero, p.predicted_amount)
    /\ FracLe(FracZero, p.lower_bound)

\* a forecast returned whose line was below zero for the month, with
\* predicted_amount and lower_bound 0
C18_Witness ==
  \E f \in DOMAIN fc :
    /\ fc[f].pc = "returned" /\ fc[f].op = "forecast"
    /\ fc[f].result.success
    /\ \E i \in 1..Len(fc[f].predictions) :
         /\ FracLt(fc[f].predictions[i], FracZero)
         /\ fc[f].result.predictions[i].predicted_amount = FracZero
         /\ fc[f].result.predictions[i].lower_bound = FracZero

\* C19: every forecast point returned has upper_bound >= lower_bound and
\* upper_bound >= predicted_amount, also where predicted_amount and
\* lower_bound were clamped to 0.
C19_UpperBoundAbove ==
  \A p \in ForecastPoints :
    /\ FracLe(p.lower_bound, p.upper_bound)
    /\ FracLe(p.predicted_amount, p.upper_bound)

\* the calls of predict_future_expenses that have returned: category,
\* result, and whether the call fitted the model
Finished(f) ==
  (IF fc[f].pc = "returned" /\ fc[f].op = "forecast"
   THEN {[category |-> fc[f].category, result |-> fc[f].result,
          fit |-> fc[f].fit]}
   ELSE {})
  \cup {fc[f].results[i] : i \in 1..Len(fc[f].results)}

\* the observations a call with this category forecasts from
Series(category) ==
  IF category = "None" THEN frame
  ELSE SelectSeq(frame, LAMBDA r : r.category = category)

\* C20: predict_future_expenses returns the insufficient-data result, with
\* no predictions and nothing fitted, whenever the series left by the
\* category filter has fewer than 30 observations, in predict_by_category
\* too.
C20_InsufficientAfterFilter ==
  \A f \in DOMAIN fc : \A c \in Finished(f) :
    Len(Series(c.category)) < 30 =>
      /\ ~c.result.success
      /\ c.result.predictions = <<>>
      /\ ~c.fit
(***************************************************************************)
(* Properties of the trend.                                                *)
(***************************************************************************)
\* the labels that name a direction
Directions == {"increasing", "decreasing", "stable"}

\* a call of detect_trend, direct or through GET /trend, has returned
TrendReturned(f) ==
  fc[f].pc = "returned" /\ fc[f].op \in {"detect_trend", "get_spending_trend"}

\* C21: detect_trend returns the insufficient-data result, never a
\* direction and never an exception, whenever the series aggregates to
\* fewer than 3 monthly buckets (0, 1 or 2).
C21_InsufficientBelowThree ==
  \A f \in DOMAIN fc :
    (TrendReturned(f) /\ Len(fc[f].y) < 3) =>
      /\ fc[f].result.trend = "insufficient_data"
      /\ ~fc[f].raised

\* detect_trend has returned a direction for two monthly buckets
C21_TwoMonthsLabelled ==
  \E f \in DOMAIN fc :
    /\ TrendReturned(f)
    /\ Len(fc[f].y) = 2
    /\ fc[f].result.trend = "increasing"

\* the slope a returned call labelled: the one of its result, or the one of
\* the fitted predictor model
Labelled(f) ==
  /\ fc[f].pc = "returned"
  /\ fc[f].op \in {"detect_trend", "get_spending_trend", "get_trend_direction"}
  /\ fc[f].result.trend \in Directions

\* C22: detect_trend and get_trend_direction label a fitted slope s as
\* increasing iff s > 10, decreasing iff s < -10 and stable otherwise; the
\* slopes of exactly 10 and -10 are stable.
C22_TrendBoundaries ==
  \A f \in DOMAIN fc :
    Labelled(f) =>
      LET s == fc[f].result.slope
          t == fc[f].result.trend
      IN  /\ (t = "increasing") <=> (s.n > 10 * s.d)
          /\ (t = "decreasing") <=> (s.n < (0 - 10) * s.d)
          /\ (t = "stable") <=> (s.n <= 10 * s.d /\ s.n >= (0 - 10) * s.d)
          /\ s.d > 0

\* detect_trend has returned stable for three months whose fitted slope is
\* exactly 10
C22_Witness ==
  \E f \in DOMAIN fc :
    /\ TrendReturned(f) /\ fc[f].op = "detect_trend"
    /\ Len(fc[f].y) = 3
    /\ fc[f].result.slope.n = 10 * fc[f].result.slope.d
    /\ fc[f].result.trend = "stable"

\* get_trend_direction has returned stable for a fitted slope of exactly -10
C22_DecreasingBoundary ==
  \E f \in DOMAIN fc :
    /\ fc[f].pc = "returned" /\ fc[f].op = "get_trend_direction"
    /\ epm.is_fitted
    /\ epm.line.b = (0 - 10) * epm.line.k
    /\ fc[f].result.trend = "stable"

(***************************************************************************)
(* Properties of concurrent forecasts.                                     *)
(***************************************************************************)
\* the points of lines 96-120 for the monthly totals y and the line fitted
\* to them
PointsAlone(y, periods, line) ==
  [i \in 1..periods |->
     ForecastPoint(Len(y) - 1 + i, PredictAt(line, Len(y) + i),
                   MarginOfError(StdError(line, y)))]

\* what predict_future_expenses returns for monthly totals y when no other
\* call runs
ResultAlone(y, periods) ==
  IF y = <<>> THEN Failed("fit raised")
  ELSE [success |-> TRUE, error |-> "none",
        predictions |-> PointsAlone(y, periods, FitLine(y))]

\* what predict_future_expenses(frame, periods, category) returns when no
\* other call runs
ForecastAlone(periods, category) ==
  IF Len(frame) < MinDataPoints THEN Insufficient
  ELSE ResultAlone(MonthlyData(Series(category)), periods)

\* C23: the result of predict_future_expenses depends only on the call's
\* own series and periods: with calls interleaving on the shared service,
\* each call's predictions and bounds are those of the call run alone.
C23_ForecastIsolated ==
  \A f \in DOMAIN fc : \A c \in Finished(f) :
    c.result = ForecastAlone(fc[f].periods, c.category)

(***************************************************************************)
(* Properties of get_category_suggestions.                                 *)
(***************************************************************************)
\* get_category_suggestions has returned in thread r
Suggested(r) == rd[r].op = "suggest" /\ rd[r].pc = "returned"

\* the pairs of a list have different categories
DistinctCategories(s) ==
  \A j, k \in 1..Len(s) : j # k => s[j].category # s[k].category

\* the confidences of a list never rise
NonIncreasing(s) ==
  \A k \in 1..(Len(s) - 1) : s[k].confidence >= s[k + 1].confidence

\* the probability shared by the classes that are not the top one is the
\* top probability itself
TopTied(a, n) == n > 1 /\ (100 - a.p) \div (n - 1) = a.p

\* the first pair of list s is the most probable class of the answer a that
\* predict_proba gave over n classes, with its probability
LedByTop(s, a, n) ==
  s # <<>> => /\ s[1].confidence = a.p
              /\ s[1].category = a.top \/ TopTied(a, n)

\* C24: get_category_suggestions returns at most top_n pairs, no category
\* twice, confidences never rising, led by the class the statistical model
\* found most probable; and exactly the one rule-stage guess when the
\* model raised or is unavailable.
C24_Suggestions ==
  \A r \in DOMAIN rd :
    Suggested(r) =>
      IF rd[r].mlRaised
      THEN rd[r].result = <<SuggestRuleStage[rd[r].arg]>>
      ELSE /\ Len(rd[r].result) <= rd[r].topn
           /\ DistinctCategories(rd[r].result)
           /\ NonIncreasing(rd[r].result)
           /\ LedByTop(rd[r].result, rd[r].answer, Len(rd[r].probs))

\* C24, for calls no fit step of a retrain ran into
C24_SuggestionsUndisturbed ==
  \A r \in DOMAIN rd :
    (Suggested(r) /\ rd[r].clean) =>
      IF rd[r].mlRaised
      THEN rd[r].result = <<SuggestRuleStage[rd[r].arg]>>
      ELSE /\ Len(rd[r].result) <= rd[r].topn
           /\ DistinctCategories(rd[r].result)
           /\ NonIncreasing(rd[r].result)
           /\ LedByTop(rd[r].result, rd[r].answer, Len(rd[r].probs))

\* C24: a call returned two suggestions of the model
C24_TwoSuggestions ==
  \E r \in DOMAIN rd :
    Suggested(r) /\ ~rd[r].mlRaised /\ Len(rd[r].result) = 2

(***************************************************************************)
(* Properties of the rule stage.                                           *)
(***************************************************************************)
\* the points of every category of the table for a text, in table order
CategoryPoints(text) ==
  [i \in 1..Len(EXPENSE_CATEGORIES) |->
     CountMatches(EXPENSE_CATEGORIES[i].keywords, text)]

\* the largest of the numbers of a sequence, 0 for none
Highest(points) ==
  IF points = <<>> THEN 0
  ELSE CHOOSE m \in {points[i] : i \in 1..Len(points)} :
         \A i \in 1..Len(points) : points[i] <= m

\* rule is a category with the highest points and the confidence of these
\* points, or the pair (none, 0) when no keyword matched
ScoredAs(rule, points, none) ==
  IF Highest(points) > 0
  THEN /\ \E i \in 1..Len(points) :
            /\ EXPENSE_CATEGORIES[i].slug = rule.category
            /\ points[i] = Highest(points)
       /\ rule.confidence = Min(50 + 20 * Highest(points), 100)
  ELSE rule = [category |-> none, confidence |-> 0]

\* classify has run the rule stage in thread r
RuleStageRan(r) == rd[r].op = "classify" /\ rd[r].pc # "idle"

\* C25: the rule stage gives a category 3 points for a keyword equal to the
\* trimmed lower-cased text and 1 point for any other keyword contained in
\* the text, returns the category with the most points with confidence
\* min(0.5 + 0.2 * points, 1.0), and returns other with confidence 0 when
\* no keyword matches.
C25_RuleStageOther ==
  \A r \in DOMAIN rd :
    RuleStageRan(r) => ScoredAs(rd[r].rule, CategoryPoints(rd[r].text), "other")

\* C25, with the category that line 162 returns when no keyword matches
C25_RuleStageOthers ==
  \A r \in DOMAIN rd :
    RuleStageRan(r) => ScoredAs(rd[r].rule, CategoryPoints(rd[r].text), "others")

\* C25: the rule stage ran on a text equal to a keyword (3 points), and on
\* a text that contains one (1 point)
C25_ExactKeyword ==
  \E r \in DOMAIN rd : RuleStageRan(r) /\ rd[r].rule.confidence = 100

C25_ContainedKeyword ==
  \E r \in DOMAIN rd : RuleStageRan(r) /\ rd[r].rule.confidence = 70

(***************************************************************************)
(* Properties of the forecast months and intervals.                        *)
(***************************************************************************)
\* the successful results among the calls of predict_future_expenses that
\* have returned in thread f, with the monthly totals they were made from
Forecasts(f) ==
  {[y |-> MonthlyData(Series(c.category)), points |-> c.result.predictions] :
     c \in {d \in Finished(f) : d.result.success}}

\* point k of a forecast from the monthly totals y is dated k months after
\* the last bucket and is the line fitted to y at index Len(y) + shift + k,
\* clamped at 0
PointsOnLine(y, points, shift) ==
  \A k \in 1..Len(points) :
    /\ points[k].month = (Len(y) - 1) + k
    /\ points[k].predicted_amount =
         NonNegative(PredictAt(FitLine(y), Len(y) + shift + k))

\* C26: with n monthly buckets indexed 0..n-1, predict_future_expenses
\* returns exactly periods points, and point k, dated k months after the
\* last bucket, is the fitted line at index (n - 1) + k.
C26_NextIndices ==
  \A f \in DOMAIN fc : \A c \in Forecasts(f) :
    /\ Len(c.points) = fc[f].periods
    /\ PointsOnLine(c.y, c.points, 0 - 1)

\* C26, with the index of line 97: point k is the line at index n + k
C26_IndicesOfTheCode ==
  \A f \in DOMAIN fc : \A c \in Forecasts(f) :
    /\ Len(c.points) = fc[f].periods
    /\ PointsOnLine(c.y, c.points, 0)

\* C26: a forecast of MaxPeriods points was returned for rising totals
C26_RisingForecast ==
  \E f \in DOMAIN fc : \E c \in Forecasts(f) :
    /\ Len(c.points) = MaxPeriods
    /\ FitLine(c.y).b > 0

RECURSIVE Gcd(_, _)
Gcd(a, b) == IF b = 0 THEN a ELSE Gcd(b, a % b)

\* a fraction in lowest terms
Lowest(x) ==
  LET g == Gcd(IF x.n < 0 THEN 0 - x.n ELSE x.n, x.d)
  IN  Frac(x.n \div g, x.d \div g)

\* two fractions are the same number
FracEq(x, y) == Lowest(x) = Lowest(y)

\* the interval of point p is the one of margin z * 0.1 * predicted_amount
TenthMargin(p) ==
  LET pred == Lowest(p.predicted_amount)
      m    == Frac(ZValue(p.confidence) * pred.n, 1250 * pred.d)
      same == Frac(1250 * pred.n, 1250 * pred.d)
  IN  /\ FracEq(p.lower_bound, NonNegative(FracSub(same, m)))
      /\ FracEq(p.upper_bound, FracAdd(same, m))

\* the points returned by ExpensePredictorModel.predict_future
PredictorPoints ==
  UNION {{fc[f].result.predictions[i] : i \in 1..Len(fc[f].result.predictions)} :
           f \in {g \in DOMAIN fc : fc[g].pc = "returned"
                                     /\ fc[g].op = "predict_future"}}

\* C27: every forecast point has lower_bound = max(0, predicted - m) and
\* upper_bound = predicted + m for the margin m = z * 0.1 * predicted_amount,
\* z = 1.96 at the 95% level and 2.576 at 99%: the interval depends on the
\* predicted amount and the level only, not on the residuals.
C27_TenthOfPrediction == \A p \in ForecastPoints : TenthMargin(p)

\* C27, for the points of ExpensePredictorModel.predict_future alone
C27_PredictorTenth == \A p \in PredictorPoints : TenthMargin(p)

\* C27: predict_future returned a point above 0 at the 99% level
C27_PredictorAt99 ==
  \E p \in PredictorPoints :
    p.confidence = 99 /\ FracLt(FracZero, p.predicted_amount)

(***************************************************************************)
(* Properties of extract_merchant.                                         *)
(***************************************************************************)
\* the lines of a text with more than n characters once stripped
LinesLongerThan(text, n) ==
  {i \in 1..Len(SplitLines(text, <<>>)) :
     Len(Strip(SplitLines(text, <<>>)[i])) > n}

\* C28: extract_merchant returns None only when the text has no non-empty
\* line: for a text with a non-empty line, be it of 1 to 3 characters, it
\* returns a non-empty merchant.
C28_MerchantUnlessBlank ==
  Parsed =>
    (LinesLongerThan(upload.text, 0) # {} =>
       /\ upload.parsed_data.merchant # None
       /\ upload.parsed_data.merchant # <<>>)

\* C28, for the texts with a line of more than 3 characters (line 162)
C28_MerchantOfLongLine ==
  Parsed =>
    (LinesLongerThan(upload.text, 3) # {} =>
       /\ upload.parsed_data.merchant # None
       /\ upload.parsed_data.merchant # <<>>)

\* C28: a text whose only non-empty lines have at most 3 characters was
\* parsed
C28_ShortLinesOnly ==
  /\ Parsed
  /\ LinesLongerThan(upload.text, 0) # {}
  /\ LinesLongerThan(upload.text, 3) = {}

(***************************************************************************)
(* Properties of the bootstrap training set.                               *)
(***************************************************************************)
PurchaseAt == <<"p","u","r","c","h","a","s","e"," ","a","t"," ">>
StoreAfter == <<" ","s","t","o","r","e">>

\* the keywords of the table, each with its category
TableKeywords ==
  UNION {{[x |-> EXPENSE_CATEGORIES[i].keywords[j], y |-> EXPENSE_CATEGORIES[i].slug] :
            j \in 1..Len(EXPENSE_CATEGORIES[i].keywords)} :
         i \in 1..Len(EXPENSE_CATEGORIES)}

\* for every keyword X of the table the rows X and 'purchase at X' and, if
\* asked, 'X store', labelled with the category of X
RowsOfKeywords(with_store) ==
  UNION {{[x |-> k.x, y |-> k.y], [x |-> PurchaseAt \o k.x, y |-> k.y]}
         \cup (IF with_store THEN {[x |-> k.x \o StoreAfter, y |-> k.y]} ELSE {}) :
         k \in TableKeywords}

\* the rows of a training set
RowSet(rows) == {rows[i] : i \in 1..Len(rows)}

\* the model in place is the one _create_default_model fitted, no snapshot
\* having been there to load
Bootstrapped == model.vec = 0 /\ model.clf = 0

\* C29: without a persisted snapshot the bootstrap training set holds, for
\* every keyword X of every category of the table, exactly the three rows
\* X, 'purchase at X' and 'X store' with that category, and nothing else.
C29_ThreeRowsPerKeyword ==
  Bootstrapped =>
    /\ RowSet(TrainingRows(1)) = RowsOfKeywords(TRUE)
    /\ Len(TrainingRows(1)) = Cardinality(RowsOfKeywords(TRUE))

\* C29, with the two rows of lines 70-75: X and 'purchase at X'
C29_TwoRowsPerKeyword ==
  Bootstrapped =>
    /\ RowSet(TrainingRows(1)) = RowsOfKeywords(FALSE)
    /\ Len(TrainingRows(1)) = Cardinality(RowsOfKeywords(FALSE))

\* C29: the process started without a snapshot and classify used the
\* bootstrap model
C29_BootstrapUsed ==
  /\ ~snapshot.exists /\ Bootstrapped
  /\ \E r \in DOMAIN rd : Returned(r, "classify") /\ rd[r].ml

(***************************************************************************)
(* Properties of concurrent retrains.                                      *)
(***************************************************************************)
\* both train_with_user_data calls have fitted, saved and returned
BothSaved ==
  \A t \in DOMAIN tr : tr[t].pc = "returned" /\ tr[t].outcome = "saved"

\* the pipeline as training t alone leaves it
TrainedBy(t) == [vec |-> tr[t].id, clf |-> tr[t].id, classes |-> tr[t].classes]

\* C30: when two train_with_user_data calls with at least 10 usable samples
\* each run concurrently, then once both have returned the model in memory
\* is wholly the result of one of the two trainings, not a mixture, and the
\* snapshot holds that model.
C30_OneTrainingWins ==
  BothSaved =>
    /\ \E t \in DOMAIN tr : model = TrainedBy(t)
    /\ snapshot.exists
    /\ LoadOrCreateModel(snapshot) = model

\* C30, the snapshot alone: it holds the model in memory
C30_SnapshotIsMemory ==
  BothSaved => snapshot.exists /\ LoadOrCreateModel(snapshot) = model

\* C30: both calls have returned and the model is that of one training
C30_OneTrainingWon ==
  BothSaved /\ \E t \in DOMAIN tr : model = TrainedBy(t)

=============================================================================
